---- MODULE Spec2Model ----
(***************************************************************************)
(* MemeTrader decision pipeline: the per-instrument TokenState machine     *)
(* (app/orchestrator/state_machine.py), the rule policy                    *)
(* (app/policies/rules_v0.py), the risk validator                          *)
(* (app/orchestrator/validator.py) and the tick loop of run_engine         *)
(* (app/orchestrator/runner.py).                                           *)
(*                                                                         *)
(* Numbers.  Prices are small positive integers.  A percentage p of the    *)
(* configuration (0.10 in the source) is the integer 100*p, and a          *)
(* comparison  x >= y * (1.0 + p)  of the source is  x*100 >= y*(100+p).   *)
(* Money is an integer number of dollars.  Optional fields hold None.       *)
(***************************************************************************)
EXTENDS Integers, Sequences, FiniteSets, TLC

VARIABLES cfg, state, cursor, pc, item

vars == <<cfg, state, cursor, pc, item>>

\* ------------------------------------------------------------------ bounds
MaxIndex == 4
MaxTimeInTrade == 3
MaxScaleOuts == 2
MaxPositionUsd == 500
MaxReenterIndex == 7
MaxProposals == 3
MaxScore == 2
MaxTopN == 2
MaxTick == 2
MaxCooldown == 2
MaxBacktestIndex == 6
MaxCandles == 3
MaxLookback == 2
MaxRetries == 2
MaxRequests == 4
MaxZones == 3
MaxSupportZones == 2

MaxFeedLen == 12

\* --------------------------------------------------------------- constants
None == -1
CandleSeconds == 60

STATE_SCOUT == "SCOUT"
STATE_PROBE == "PROBE"
STATE_TRADE == "TRADE"
STATE_COOLDOWN == "COOLDOWN"

ACTION_HOLD == "HOLD"
ACTION_PROBE_BUY == "PROBE_BUY"
ACTION_ADD_BUY == "ADD_BUY"
ACTION_SCALE_OUT_20 == "SCALE_OUT_20"
ACTION_EXIT_FULL == "EXIT_FULL"

Actions == {ACTION_HOLD, ACTION_PROBE_BUY, ACTION_ADD_BUY, ACTION_SCALE_OUT_20, ACTION_EXIT_FULL}

Prices == {9, 10, 11}

Max(a, b) == IF a >= b THEN a ELSE b
Min(a, b) == IF a <= b THEN a ELSE b

\* Python truthiness of an Optional[float]: neither None nor 0.0
Truthy(x) == x /= None /\ x /= 0

Contains(seq, x) == \E k \in 1..Len(seq) : seq[k] = x

\* ------------------------------------------------------------- TokenState
TokenState ==
    [status |-> STATE_SCOUT,
     probe_entry_price |-> None,
     probe_entry_low |-> None,
     add_entry_price |-> None,
     position_usd |-> 0,
     time_in_trade |-> 0,
     cooldown_left |-> 0,
     scale_out_stage |-> 0,
     last_exit_ts |-> None,
     last_exit_price |-> None,
     last_exit_index |-> None,
     entry_index |-> None,
     last_exit_was_stop |-> FALSE,
     pending_breakout_index |-> None,
     pending_breakout_level |-> None,
     pending_breakout_expires_index |-> None,
     entry_price |-> None,
     max_favorable_price |-> None,
     progress_hit |-> FALSE,
     progress_deadline_index |-> None]

\* -------------------------------------------------------- state_machine.py
\* the lockout without the tripling after a stop-loss exit
_lockout_candles_flat(c, last_exit_was_stop) ==
    c.lockout_candles

_lockout_candles(c, last_exit_was_stop) ==
    IF last_exit_was_stop THEN c.lockout_candles * 3 ELSE c.lockout_candles

_lockout_expired(now_ts, last_exit_ts, now_index, last_exit_index, c, interval_sec, last_exit_was_stop) ==
    LET lockout == _lockout_candles(c, last_exit_was_stop) IN
    IF lockout <= 0 THEN TRUE
    ELSE IF now_index /= None /\ last_exit_index /= None
         THEN (now_index - last_exit_index) >= lockout
    ELSE IF last_exit_ts = None THEN TRUE
    ELSE now_ts >= last_exit_ts + lockout * interval_sec

\* a lockout update that also forgets where the exit was
update_reentry_lockout_forgets_exit(s, now_ts, c, interval_sec, now_index) ==
    IF ~s.last_exit_was_stop THEN s
    ELSE IF _lockout_expired(now_ts, s.last_exit_ts, now_index, s.last_exit_index, c, interval_sec, TRUE)
         THEN [s EXCEPT !.last_exit_was_stop = FALSE, !.last_exit_index = None]
    ELSE s

update_reentry_lockout(s, now_ts, c, interval_sec, now_index) ==
    IF ~s.last_exit_was_stop THEN s
    ELSE IF _lockout_expired(now_ts, s.last_exit_ts, now_index, s.last_exit_index, c, interval_sec, TRUE)
         THEN [s EXCEPT !.last_exit_was_stop = FALSE]
    ELSE s

\* a reset that forgets the level
clear_pending_breakout_keeps_level(s) ==
    [s EXCEPT !.pending_breakout_index = None,
              !.pending_breakout_expires_index = None]

clear_pending_breakout(s) ==
    [s EXCEPT !.pending_breakout_index = None,
              !.pending_breakout_level = None,
              !.pending_breakout_expires_index = None]

can_reenter(now_ts, last_exit_ts, last_exit_index, last_exit_price, current_close, c, vol_ok, last_exit_was_stop, interval_sec, now_index) ==
    IF last_exit_price = None THEN TRUE
    ELSE IF last_exit_ts = None /\ last_exit_index = None THEN TRUE
    ELSE
      LET lockout == _lockout_candles(c, last_exit_was_stop)
          price_ok == current_close * 100 >= last_exit_price * (100 + c.min_breakout_pct)
          candle_seconds == IF interval_sec /= None /\ interval_sec /= 0
                            THEN interval_sec ELSE c.candle_seconds
      IN
      IF lockout <= 0 THEN TRUE
      ELSE IF now_index /= None /\ last_exit_index /= None
           THEN IF (now_index - last_exit_index) < lockout
                THEN price_ok \/ vol_ok
                ELSE TRUE
      ELSE IF last_exit_ts = None THEN TRUE
      ELSE IF now_ts < last_exit_ts + lockout * candle_seconds
           THEN price_ok \/ vol_ok
           ELSE TRUE

\* a countdown that leaves the cooldown one call early
advance_time_leaves_early(s) ==
    LET s1 == IF s.status \in {STATE_PROBE, STATE_TRADE}
              THEN [s EXCEPT !.time_in_trade = @ + 1] ELSE s
    IN
    IF s1.status = STATE_COOLDOWN /\ s1.cooldown_left > 0
    THEN LET s2 == [s1 EXCEPT !.cooldown_left = @ - 1] IN
         IF s2.cooldown_left <= 1
         THEN [s2 EXCEPT !.status = STATE_SCOUT, !.cooldown_left = 0]
         ELSE s2
    ELSE s1

advance_time(s) ==
    LET s1 == IF s.status \in {STATE_PROBE, STATE_TRADE}
              THEN [s EXCEPT !.time_in_trade = @ + 1] ELSE s
    IN
    IF s1.status = STATE_COOLDOWN /\ s1.cooldown_left > 0
    THEN LET s2 == [s1 EXCEPT !.cooldown_left = @ - 1] IN
         IF s2.cooldown_left <= 0
         THEN [s2 EXCEPT !.status = STATE_SCOUT, !.cooldown_left = 0]
         ELSE s2
    ELSE s1

apply_probe_buy(s, snapshot, c) ==
    [clear_pending_breakout(s) EXCEPT
        !.status = STATE_PROBE,
        !.probe_entry_price = snapshot.last_close,
        !.probe_entry_low = snapshot.last_low,
        !.position_usd = (c.capital_usd * c.probe_pct) \div 100,
        !.time_in_trade = 0,
        !.scale_out_stage = 0,
        !.entry_index = snapshot.candle_index,
        !.entry_price = snapshot.last_close,
        !.max_favorable_price = snapshot.last_close,
        !.progress_hit = FALSE,
        !.progress_deadline_index =
            IF snapshot.candle_index /= None /\ c.max_wait_candles > 0
            THEN snapshot.candle_index + c.max_wait_candles
            ELSE None]

apply_add_buy(s, snapshot, c) ==
    [clear_pending_breakout(s) EXCEPT
        !.status = STATE_TRADE,
        !.add_entry_price = snapshot.last_close,
        !.position_usd = @ + (c.capital_usd * c.add_pct) \div 100,
        !.entry_index = IF @ = None THEN snapshot.candle_index ELSE @,
        !.entry_price = IF @ = None THEN snapshot.last_close ELSE @]

apply_scale_out(s, c) ==
    LET scale_pct == IF s.scale_out_stage = 0 THEN c.tp1_scale_out_pct ELSE c.tp2_scale_out_pct IN
    [s EXCEPT !.position_usd = Max(0, (@ * (100 - scale_pct)) \div 100),
              !.scale_out_stage = @ + 1]

\* an exit that forgets to zero the position
apply_exit_full_keeps_position(s, snapshot, c, exit_reason_codes) ==
    [clear_pending_breakout(s) EXCEPT
        !.status = STATE_COOLDOWN,
        !.cooldown_left = c.cooldown_candles,
        !.probe_entry_price = None,
        !.probe_entry_low = None,
        !.add_entry_price = None,
        !.time_in_trade = 0,
        !.scale_out_stage = 0,
        !.entry_index = None,
        !.entry_price = None,
        !.max_favorable_price = None,
        !.progress_hit = FALSE,
        !.progress_deadline_index = None,
        !.last_exit_ts = snapshot.now_ts,
        !.last_exit_price = snapshot.last_close,
        !.last_exit_index = snapshot.candle_index,
        !.last_exit_was_stop = Contains(exit_reason_codes, "STRUCT_STOP")]

\* an exit that takes every reasoned exit for a stop
apply_exit_full_any_stop(s, snapshot, c, exit_reason_codes) ==
    [clear_pending_breakout(s) EXCEPT
        !.status = STATE_COOLDOWN,
        !.cooldown_left = c.cooldown_candles,
        !.probe_entry_price = None,
        !.probe_entry_low = None,
        !.add_entry_price = None,
        !.position_usd = 0,
        !.time_in_trade = 0,
        !.scale_out_stage = 0,
        !.entry_index = None,
        !.entry_price = None,
        !.max_favorable_price = None,
        !.progress_hit = FALSE,
        !.progress_deadline_index = None,
        !.last_exit_ts = snapshot.now_ts,
        !.last_exit_price = snapshot.last_close,
        !.last_exit_index = snapshot.candle_index,
        !.last_exit_was_stop = (exit_reason_codes /= <<>>)]

apply_exit_full(s, snapshot, c, exit_reason_codes) ==
    [clear_pending_breakout(s) EXCEPT
        !.status = STATE_COOLDOWN,
        !.cooldown_left = c.cooldown_candles,
        !.probe_entry_price = None,
        !.probe_entry_low = None,
        !.add_entry_price = None,
        !.position_usd = 0,
        !.time_in_trade = 0,
        !.scale_out_stage = 0,
        !.entry_index = None,
        !.entry_price = None,
        !.max_favorable_price = None,
        !.progress_hit = FALSE,
        !.progress_deadline_index = None,
        !.last_exit_ts = snapshot.now_ts,
        !.last_exit_price = snapshot.last_close,
        !.last_exit_index = snapshot.candle_index,
        !.last_exit_was_stop = Contains(exit_reason_codes, "STRUCT_STOP")]

apply_action(s, action, snapshot, c, exit_reason_codes) ==
    IF action = ACTION_PROBE_BUY THEN apply_probe_buy(s, snapshot, c)
    ELSE IF action = ACTION_ADD_BUY THEN apply_add_buy(s, snapshot, c)
    ELSE IF action = ACTION_SCALE_OUT_20 THEN apply_scale_out(s, c)
    ELSE IF action = ACTION_EXIT_FULL THEN apply_exit_full(s, snapshot, c, exit_reason_codes)
    ELSE s

\* ------------------------------------------------------------ rules_v0.py
Proposal(s, action, reason_codes) ==
    [state |-> s, action |-> action, reason_codes |-> reason_codes]

\* infer_interval_sec: the median spacing of the candle timestamps; the feed
\* of the model produces one candle every CandleSeconds
infer_interval_sec == CandleSeconds

\* vol_ok of the strict-breakout branch (rules_v0.py lines 105-110)
vol_unlock(snapshot, c) ==
    IF c.vol_mult_unlock > 0 /\ snapshot.avg_volume > 0
    THEN snapshot.current_vol > c.vol_mult_unlock * snapshot.avg_volume
    ELSE FALSE

missing_reasons(snapshot) ==
    (IF ~snapshot.range_compressed THEN <<"NO_RANGE_COMPRESSION">> ELSE <<>>)
    \o (IF ~snapshot.price_expanded THEN <<"NO_PRICE_EXPANSION">> ELSE <<>>)

\* a check without the retrace condition
pending_check_no_retrace(snapshot, s, c) ==
    LET expires == s.pending_breakout_expires_index
        level == s.pending_breakout_level
        close == snapshot.last_close
        confirm_close == close * 100 >= level * (100 + c.confirm_min_close_above_pct)
    IN
    IF expires /= None /\ snapshot.candle_index > expires
    THEN Proposal(clear_pending_breakout(s), ACTION_HOLD, <<"BREAKOUT_EXPIRED">>)
    ELSE IF level = None
    THEN Proposal(clear_pending_breakout(s), ACTION_HOLD, <<"BREAKOUT_EXPIRED">>)
    ELSE IF close > level /\ confirm_close
    THEN Proposal(clear_pending_breakout(s), ACTION_PROBE_BUY, <<"BREAKOUT_CONFIRM">>)
    ELSE Proposal(s, ACTION_HOLD, <<"BREAKOUT_WAIT">>)

\* a check that tries the confirmation before the expiry
pending_check_confirm_first(snapshot, s, c) ==
    LET expires == s.pending_breakout_expires_index
        level == s.pending_breakout_level
        close == snapshot.last_close
        low == snapshot.last_low
        confirm_close == close * 100 >= level * (100 + c.confirm_min_close_above_pct)
        confirm_retrace_ok == low * 100 >= level * (100 - c.confirm_max_retrace_pct)
    IN
    IF level /= None /\ close > level /\ confirm_close /\ confirm_retrace_ok
    THEN Proposal(clear_pending_breakout(s), ACTION_PROBE_BUY, <<"BREAKOUT_CONFIRM">>)
    ELSE IF expires /= None /\ snapshot.candle_index > expires
    THEN Proposal(clear_pending_breakout(s), ACTION_HOLD, <<"BREAKOUT_EXPIRED">>)
    ELSE IF level = None
    THEN Proposal(clear_pending_breakout(s), ACTION_HOLD, <<"BREAKOUT_EXPIRED">>)
    ELSE Proposal(s, ACTION_HOLD, <<"BREAKOUT_WAIT">>)

\* the pending-breakout check, entered with pending_breakout_index set and a
\* candle index present (rules_v0.py lines 60-102)
pending_check(snapshot, s, c) ==
    LET expires == s.pending_breakout_expires_index
        level == s.pending_breakout_level
        close == snapshot.last_close
        low == snapshot.last_low
        confirm_close == close * 100 >= level * (100 + c.confirm_min_close_above_pct)
        confirm_retrace_ok == low * 100 >= level * (100 - c.confirm_max_retrace_pct)
    IN
    IF expires /= None /\ snapshot.candle_index > expires
    THEN Proposal(clear_pending_breakout(s), ACTION_HOLD, <<"BREAKOUT_EXPIRED">>)
    ELSE IF level = None
    THEN Proposal(clear_pending_breakout(s), ACTION_HOLD, <<"BREAKOUT_EXPIRED">>)
    ELSE IF close > level /\ confirm_close /\ confirm_retrace_ok
    THEN Proposal(clear_pending_breakout(s), ACTION_PROBE_BUY, <<"BREAKOUT_CONFIRM">>)
    ELSE Proposal(s, ACTION_HOLD, <<"BREAKOUT_WAIT">>)

\* a strict-breakout branch that waits one candle longer for the confirmation
strict_breakout_longer_window(snapshot, s, c) ==
    IF ~can_reenter(snapshot.now_ts, s.last_exit_ts, s.last_exit_index, s.last_exit_price, snapshot.last_close, c, vol_unlock(snapshot, c), s.last_exit_was_stop, infer_interval_sec, snapshot.candle_index)
    THEN Proposal(s, ACTION_HOLD, <<"REENTRY_LOCKOUT">>)
    ELSE IF snapshot.candle_index = None
    THEN Proposal(s, ACTION_PROBE_BUY, <<"BREAKOUT">>)
    ELSE Proposal([s EXCEPT !.pending_breakout_index = snapshot.candle_index,
                            !.pending_breakout_level = snapshot.highest_close,
                            !.pending_breakout_expires_index = snapshot.candle_index + 4],
                  ACTION_HOLD, <<"BREAKOUT_PENDING">>)

\* a strict-breakout branch that arms the level at the breakout close
strict_breakout_level_at_close(snapshot, s, c) ==
    IF ~can_reenter(snapshot.now_ts, s.last_exit_ts, s.last_exit_index, s.last_exit_price, snapshot.last_close, c, vol_unlock(snapshot, c), s.last_exit_was_stop, infer_interval_sec, snapshot.candle_index)
    THEN Proposal(s, ACTION_HOLD, <<"REENTRY_LOCKOUT">>)
    ELSE IF snapshot.candle_index = None
    THEN Proposal(s, ACTION_PROBE_BUY, <<"BREAKOUT">>)
    ELSE Proposal([s EXCEPT !.pending_breakout_index = snapshot.candle_index,
                            !.pending_breakout_level = snapshot.last_close,
                            !.pending_breakout_expires_index = snapshot.candle_index + 3],
                  ACTION_HOLD, <<"BREAKOUT_PENDING">>)

\* the strict-breakout branch (rules_v0.py lines 104-145)
strict_breakout(snapshot, s, c) ==
    IF ~can_reenter(snapshot.now_ts, s.last_exit_ts, s.last_exit_index, s.last_exit_price, snapshot.last_close, c, vol_unlock(snapshot, c), s.last_exit_was_stop, infer_interval_sec, snapshot.candle_index)
    THEN Proposal(s, ACTION_HOLD, <<"REENTRY_LOCKOUT">>)
    ELSE IF snapshot.candle_index = None
    THEN Proposal(s, ACTION_PROBE_BUY, <<"BREAKOUT">>)
    ELSE Proposal([s EXCEPT !.pending_breakout_index = snapshot.candle_index,
                            !.pending_breakout_level = snapshot.highest_close,
                            !.pending_breakout_expires_index = snapshot.candle_index + 3],
                  ACTION_HOLD, <<"BREAKOUT_PENDING">>)

\* a chain-override branch that proposes the add instead of the probe
chain_override_entry_adds(snapshot, s, c) ==
    IF ~can_reenter(snapshot.now_ts, s.last_exit_ts, s.last_exit_index, s.last_exit_price, snapshot.last_close, c, FALSE, s.last_exit_was_stop, infer_interval_sec, snapshot.candle_index)
    THEN Proposal(s, ACTION_HOLD, <<"REENTRY_LOCKOUT">>)
    ELSE Proposal(s, ACTION_ADD_BUY, missing_reasons(snapshot) \o <<"PROVISIONAL_CHAIN_OVERRIDE">>)

\* a chain-override branch that does not ask the re-entry lockout
chain_override_entry_ignores_lockout(snapshot, s, c) ==
    Proposal(s, ACTION_PROBE_BUY, missing_reasons(snapshot) \o <<"PROVISIONAL_CHAIN_OVERRIDE">>)

\* the chain-override branch (rules_v0.py lines 146-170)
chain_override_entry(snapshot, s, c) ==
    IF ~can_reenter(snapshot.now_ts, s.last_exit_ts, s.last_exit_index, s.last_exit_price, snapshot.last_close, c, FALSE, s.last_exit_was_stop, infer_interval_sec, snapshot.candle_index)
    THEN Proposal(s, ACTION_HOLD, <<"REENTRY_LOCKOUT">>)
    ELSE Proposal(s, ACTION_PROBE_BUY, missing_reasons(snapshot) \o <<"PROVISIONAL_CHAIN_OVERRIDE">>)

\* a SCOUT branch that tries the chain override before the strict breakout
propose_scout_override_first(snapshot, s0, c) ==
    LET s == update_reentry_lockout(s0, snapshot.now_ts, c, infer_interval_sec, snapshot.candle_index)
        pending == s.pending_breakout_index /= None
        s1 == IF pending /\ snapshot.candle_index = None THEN clear_pending_breakout(s) ELSE s
    IN
    IF pending /\ snapshot.candle_index /= None THEN pending_check(snapshot, s, c)
    ELSE IF snapshot.chain_override THEN chain_override_entry(snapshot, s1, c)
    ELSE IF snapshot.breakout_strict THEN strict_breakout(snapshot, s1, c)
    ELSE Proposal(s1, ACTION_HOLD,
                  IF missing_reasons(snapshot) = <<>> THEN <<"NO_PRICE_EXPANSION">>
                  ELSE missing_reasons(snapshot))

propose_scout(snapshot, s0, c) ==
    LET s == update_reentry_lockout(s0, snapshot.now_ts, c, infer_interval_sec, snapshot.candle_index)
        pending == s.pending_breakout_index /= None
        s1 == IF pending /\ snapshot.candle_index = None THEN clear_pending_breakout(s) ELSE s
    IN
    IF pending /\ snapshot.candle_index /= None THEN pending_check(snapshot, s, c)
    ELSE IF snapshot.breakout_strict THEN strict_breakout(snapshot, s1, c)
    ELSE IF snapshot.chain_override THEN chain_override_entry(snapshot, s1, c)
    ELSE Proposal(s1, ACTION_HOLD,
                  IF missing_reasons(snapshot) = <<>> THEN <<"NO_PRICE_EXPANSION">>
                  ELSE missing_reasons(snapshot))

\* the progress sub-protocol shared by PROBE and TRADE (rules_v0.py lines
\* 177-217 and 242-282): the updated state and the stop reason, "" for none
progress_check(snapshot, s, c) ==
    LET entry_price == IF Truthy(s.entry_price) THEN s.entry_price ELSE s.probe_entry_price IN
    IF ~Truthy(entry_price) THEN [state |-> s, stop |-> ""]
    ELSE
      LET mfp0 == IF s.max_favorable_price = None THEN entry_price ELSE s.max_favorable_price
          hit == s.progress_hit \/ snapshot.last_high * 100 >= entry_price * (100 + c.min_move_pct)
          s1 == [s EXCEPT !.max_favorable_price = Max(mfp0, snapshot.last_close),
                          !.progress_hit = hit]
      IN
      IF ~hit THEN
        LET deadline == IF s1.progress_deadline_index = None /\ s1.entry_index /= None /\ c.max_wait_candles > 0
                        THEN s1.entry_index + c.max_wait_candles
                        ELSE s1.progress_deadline_index
            s2 == [s1 EXCEPT !.progress_deadline_index = deadline]
        IN
        IF deadline /= None /\ snapshot.candle_index /= None /\ snapshot.candle_index >= deadline
        THEN [state |-> s2, stop |-> "PROGRESS_STOP"]
        ELSE [state |-> s2, stop |-> ""]
      ELSE
        LET be == IF c.breakeven_after_progress THEN entry_price ELSE None
            stop_level == IF c.trail_after_progress /\ snapshot.trail_low /= None
                          THEN (IF be /= None THEN Max(be, snapshot.trail_low) ELSE snapshot.trail_low)
                          ELSE be
        IN
        IF stop_level /= None /\ snapshot.last_close < stop_level
        THEN [state |-> s1, stop |-> "TRAIL_STOP"]
        ELSE [state |-> s1, stop |-> ""]

struct_stop(snapshot, s, c) ==
    /\ s.probe_entry_low /= None
    /\ snapshot.last_close * 100 < s.probe_entry_low * (100 - c.stop_buffer_pct)

propose_probe(snapshot, s0, c) ==
    LET pr == progress_check(snapshot, s0, c)
        s == pr.state
    IN
    IF pr.stop /= "" THEN Proposal(s, ACTION_EXIT_FULL, <<pr.stop>>)
    ELSE IF struct_stop(snapshot, s, c) THEN Proposal(s, ACTION_EXIT_FULL, <<"STRUCT_STOP">>)
    ELSE IF /\ Truthy(s.probe_entry_price)
            /\ s.probe_entry_low /= None
            /\ snapshot.last_close * 100 >= s.probe_entry_price * (100 + c.add_trigger_up_pct)
            /\ snapshot.last_close > s.probe_entry_low
    THEN Proposal(s, ACTION_ADD_BUY, <<"ADD_TRIGGER">>)
    ELSE Proposal(s, ACTION_HOLD, <<"WAIT_ADD">>)

\* a time stop that counts the ticks in the position only
time_stop_counts_ticks(snapshot, s, c) ==
    /\ c.time_stop_candles /= 0
    /\ s.time_in_trade >= c.time_stop_candles

\* rules_v0.py lines 294-310
time_stop(snapshot, s, c) ==
    /\ c.time_stop_candles /= 0
    /\ IF snapshot.candle_index /= None /\ s.entry_index /= None
       THEN (snapshot.candle_index - s.entry_index) >= c.time_stop_candles
       ELSE s.time_in_trade >= c.time_stop_candles

resistance_touch(snapshot, s) ==
    LET levels == snapshot.resistance_levels IN
    IF Len(levels) = 0 THEN ""
    ELSE IF s.scale_out_stage = 0 /\ Len(levels) >= 1 /\ snapshot.last_close >= levels[1] THEN "R1_TOUCH"
    ELSE IF s.scale_out_stage = 1 /\ Len(levels) >= 2 /\ snapshot.last_close >= levels[2] THEN "R2_TOUCH"
    ELSE IF s.scale_out_stage >= 2 /\ Len(levels) >= 3 /\ snapshot.last_close >= levels[3] THEN "R3_TOUCH"
    ELSE ""

propose_trade(snapshot, s0, c) ==
    LET pr == progress_check(snapshot, s0, c)
        s == pr.state
        touch == resistance_touch(snapshot, s)
    IN
    IF pr.stop /= "" THEN Proposal(s, ACTION_EXIT_FULL, <<pr.stop>>)
    ELSE IF struct_stop(snapshot, s, c) THEN Proposal(s, ACTION_EXIT_FULL, <<"STRUCT_STOP">>)
    ELSE IF time_stop(snapshot, s, c) THEN Proposal(s, ACTION_EXIT_FULL, <<"TIME_STOP">>)
    ELSE IF snapshot.support_low /= None /\ snapshot.last_close < snapshot.support_low
    THEN Proposal(s, ACTION_EXIT_FULL, <<"SUPPORT_BREAK">>)
    ELSE IF touch = "R3_TOUCH" THEN Proposal(s, ACTION_EXIT_FULL, <<touch>>)
    ELSE IF touch /= "" THEN Proposal(s, ACTION_SCALE_OUT_20, <<touch>>)
    ELSE Proposal(s, ACTION_HOLD, <<"HOLD_TRADE">>)

\* a policy that looks for breakouts during the cooldown as well
propose_action_scouts_in_cooldown(snapshot, s, c) ==
    IF s.status \in {STATE_SCOUT, STATE_COOLDOWN} THEN propose_scout(snapshot, s, c)
    ELSE IF s.status = STATE_PROBE THEN propose_probe(snapshot, s, c)
    ELSE IF s.status = STATE_TRADE THEN propose_trade(snapshot, s, c)
    ELSE Proposal(s, ACTION_HOLD, <<"DEFAULT_HOLD">>)

propose_action(snapshot, s, c) ==
    IF s.status = STATE_COOLDOWN THEN Proposal(s, ACTION_HOLD, <<"COOLDOWN">>)
    ELSE IF s.status = STATE_SCOUT THEN propose_scout(snapshot, s, c)
    ELSE IF s.status = STATE_PROBE THEN propose_probe(snapshot, s, c)
    ELSE IF s.status = STATE_TRADE THEN propose_trade(snapshot, s, c)
    ELSE Proposal(s, ACTION_HOLD, <<"DEFAULT_HOLD">>)

\* ---------------------------------------------------- risk.py, validator.py
estimate_slippage_bps(amount_usd, liquidity_usd) ==
    IF liquidity_usd <= 0 THEN 10000
    ELSE Max(10, Min(5000, (amount_usd * 10000) \div liquidity_usd))

_action_notional_usd(action, s, c) ==
    IF action = ACTION_PROBE_BUY THEN (c.capital_usd * c.probe_pct) \div 100
    ELSE IF action = ACTION_ADD_BUY THEN (c.capital_usd * c.add_pct) \div 100
    ELSE IF action = ACTION_SCALE_OUT_20
         THEN (s.position_usd * (IF s.scale_out_stage = 0 THEN c.tp1_scale_out_pct ELSE c.tp2_scale_out_pct)) \div 100
    ELSE IF action = ACTION_EXIT_FULL THEN s.position_usd
    ELSE 0

\* a validator that looks at the slippage first
validate_action_slippage_first(proposal, liquidity_usd, s, c) ==
    IF proposal.action = ACTION_HOLD THEN [action |-> proposal.action, reason_codes |-> proposal.reason_codes]
    ELSE
      LET rejected ==
            (IF estimate_slippage_bps(_action_notional_usd(proposal.action, s, c), liquidity_usd) > c.max_slippage_bps
             THEN <<"REJECT_SLIPPAGE_TOO_HIGH">> ELSE <<>>)
            \o (IF s.status = STATE_COOLDOWN THEN <<"REJECT_COOLDOWN">> ELSE <<>>)
            \o (IF liquidity_usd < c.min_liquidity_usd THEN <<"REJECT_LOW_LIQUIDITY">> ELSE <<>>)
            \o (IF proposal.action \in {ACTION_SCALE_OUT_20, ACTION_EXIT_FULL} /\ s.position_usd <= 0
                THEN <<"REJECT_NO_POSITION">> ELSE <<>>)
      IN
      IF rejected /= <<>> THEN [action |-> ACTION_HOLD, reason_codes |-> rejected]
      ELSE [action |-> proposal.action, reason_codes |-> proposal.reason_codes]

\* validate_action: the surviving action and its reason codes
validate_action(proposal, liquidity_usd, s, c) ==
    IF proposal.action = ACTION_HOLD THEN [action |-> proposal.action, reason_codes |-> proposal.reason_codes]
    ELSE
      LET rejected ==
            (IF s.status = STATE_COOLDOWN THEN <<"REJECT_COOLDOWN">> ELSE <<>>)
            \o (IF liquidity_usd < c.min_liquidity_usd THEN <<"REJECT_LOW_LIQUIDITY">> ELSE <<>>)
            \o (IF proposal.action \in {ACTION_SCALE_OUT_20, ACTION_EXIT_FULL} /\ s.position_usd <= 0
                THEN <<"REJECT_NO_POSITION">> ELSE <<>>)
            \o (IF estimate_slippage_bps(_action_notional_usd(proposal.action, s, c), liquidity_usd) > c.max_slippage_bps
                THEN <<"REJECT_SLIPPAGE_TOO_HIGH">> ELSE <<>>)
      IN
      IF rejected /= <<>> THEN [action |-> ACTION_HOLD, reason_codes |-> rejected]
      ELSE [action |-> proposal.action, reason_codes |-> proposal.reason_codes]

\* ---------------------------------------------------------------- runner.py
\* _rank_entry_proposals as seen by one instrument: ranked_out is whether
\* the instrument's PROBE_BUY fell outside the top N of this tick
_rank_entry_proposals(proposal, ranked_out) ==
    IF proposal.action = ACTION_PROBE_BUY /\ ranked_out
    THEN [action |-> ACTION_HOLD, reason_codes |-> proposal.reason_codes \o <<"RANKED_OUT">>]
    ELSE [action |-> proposal.action, reason_codes |-> proposal.reason_codes]

\* the proposals of a tick, in candidate order: each entry of the list holds
\* the instrument's proposal, its TokenState and the momentum score the ranker
\* computes from its candles
Entries(proposals) ==
    {i \in 1..Len(proposals) : proposals[i].proposal.action = ACTION_PROBE_BUY}

RankedOut(proposal) ==
    [action |-> ACTION_HOLD, reason_codes |-> proposal.reason_codes \o <<"RANKED_OUT">>]

\* a ranker that sorts ascending
rank_entry_proposals_ascending(proposals, c) ==
    LET entries == Entries(proposals)
        before(j, i) == \/ proposals[j].momentum_score < proposals[i].momentum_score
                        \/ proposals[j].momentum_score = proposals[i].momentum_score /\ j < i
        position(i) == Cardinality({j \in entries : before(j, i)})
    IN
    IF c.top_n_per_tick <= 0 \/ Cardinality(entries) < Max(1, c.min_candidates_before_rank)
    THEN proposals
    ELSE [i \in 1..Len(proposals) |->
            IF i \in entries /\ position(i) >= c.top_n_per_tick
            THEN [proposals[i] EXCEPT !.proposal = RankedOut(@)]
            ELSE proposals[i]]

\* a ranker that keeps every entry tied with a kept one
rank_entry_proposals_keeps_ties(proposals, c) ==
    LET entries == Entries(proposals)
        position(i) == Cardinality({j \in entries : proposals[j].momentum_score > proposals[i].momentum_score})
    IN
    IF c.top_n_per_tick <= 0 \/ Cardinality(entries) < Max(1, c.min_candidates_before_rank)
    THEN proposals
    ELSE [i \in 1..Len(proposals) |->
            IF i \in entries /\ position(i) >= c.top_n_per_tick
            THEN [proposals[i] EXCEPT !.proposal = RankedOut(@)]
            ELSE proposals[i]]

\* a ranker that ignores min_candidates_before_rank
rank_entry_proposals_always(proposals, c) ==
    LET entries == Entries(proposals)
        before(j, i) == \/ proposals[j].momentum_score > proposals[i].momentum_score
                        \/ proposals[j].momentum_score = proposals[i].momentum_score /\ j < i
        position(i) == Cardinality({j \in entries : before(j, i)})
    IN
    IF c.top_n_per_tick <= 0
    THEN proposals
    ELSE [i \in 1..Len(proposals) |->
            IF i \in entries /\ position(i) >= c.top_n_per_tick
            THEN [proposals[i] EXCEPT !.proposal = RankedOut(@)]
            ELSE proposals[i]]

\* _rank_entry_proposals on the whole list (runner.py lines 71-93, simulate.py
\* lines 232-251).  entries.sort(reverse=True) is stable, so an entry's place
\* is the number of entries with a higher score, or with the same score and
\* an earlier place in the list; entries[top_n:] are demoted.
rank_entry_proposals(proposals, c) ==
    LET entries == Entries(proposals)
        before(j, i) == \/ proposals[j].momentum_score > proposals[i].momentum_score
                        \/ proposals[j].momentum_score = proposals[i].momentum_score /\ j < i
        position(i) == Cardinality({j \in entries : before(j, i)})
    IN
    IF c.top_n_per_tick <= 0 \/ Cardinality(entries) < Max(1, c.min_candidates_before_rank)
    THEN proposals
    ELSE [i \in 1..Len(proposals) |->
            IF i \in entries /\ position(i) >= c.top_n_per_tick
            THEN [proposals[i] EXCEPT !.proposal = RankedOut(@)]
            ELSE proposals[i]]

\* the chain features of a tick: present is FALSE for the empty map
NoChainFeatures ==
    [present |-> FALSE, chain_net_native |-> 0, chain_net_token |-> 0,
     chain_liquidity_events |-> 0, chain_liquidity_remove_events |-> 0,
     chain_tx_count |-> 0, chain_tx_velocity_per_min |-> 0]

\* an overlay that only knows the dead spike
chain_risk_reasons_spike_only(cf) ==
    IF cf.chain_tx_velocity_per_min >= 8 /\ cf.chain_tx_count < 40
    THEN <<"DEAD_AFTER_SPIKE">> ELSE <<>>

chain_risk_reasons(cf) ==
    (IF cf.chain_net_native < 0 \/ cf.chain_net_token < 0 THEN <<"NET_OUTFLOW">> ELSE <<>>)
    \o (IF cf.chain_liquidity_remove_events > 0 \/ cf.chain_liquidity_events < 0
        THEN <<"LIQUIDITY_RISK">> ELSE <<>>)
    \o (IF cf.chain_tx_velocity_per_min >= 8 /\ cf.chain_tx_count < 40
        THEN <<"DEAD_AFTER_SPIKE">> ELSE <<>>)

\* merged of _apply_chain_risk: the reasons not yet among the codes, appended
merge_reasons(codes, reasons) ==
    codes \o SelectSeq(reasons, LAMBDA r : ~Contains(codes, r))

\* an overlay that only looks at PROBE_BUY
_apply_chain_risk_spares_adds(proposal, cf) ==
    IF ~cf.present THEN proposal
    ELSE IF proposal.action \in {ACTION_EXIT_FULL, ACTION_SCALE_OUT_20} THEN proposal
    ELSE IF chain_risk_reasons(cf) = <<>> THEN proposal
    ELSE IF proposal.action = ACTION_PROBE_BUY
    THEN [action |-> ACTION_HOLD, reason_codes |-> merge_reasons(proposal.reason_codes, chain_risk_reasons(cf))]
    ELSE IF proposal.action = ACTION_HOLD
    THEN [action |-> proposal.action, reason_codes |-> merge_reasons(proposal.reason_codes, chain_risk_reasons(cf))]
    ELSE proposal

_apply_chain_risk(proposal, cf) ==
    IF ~cf.present THEN proposal
    ELSE IF proposal.action \in {ACTION_EXIT_FULL, ACTION_SCALE_OUT_20} THEN proposal
    ELSE IF chain_risk_reasons(cf) = <<>> THEN proposal
    ELSE IF proposal.action \in {ACTION_PROBE_BUY, ACTION_ADD_BUY}
    THEN [action |-> ACTION_HOLD, reason_codes |-> merge_reasons(proposal.reason_codes, chain_risk_reasons(cf))]
    ELSE IF proposal.action = ACTION_HOLD
    THEN [action |-> proposal.action, reason_codes |-> merge_reasons(proposal.reason_codes, chain_risk_reasons(cf))]
    ELSE proposal

\* ------------------------------------------------------------ configuration
BaseConfig ==
    [cooldown_candles |-> 2,
     lockout_candles |-> 1,
     min_breakout_pct |-> 10,
     candle_seconds |-> 60,
     vol_mult_unlock |-> 2,
     confirm_min_close_above_pct |-> 10,
     confirm_max_retrace_pct |-> 5,
     capital_usd |-> 1000,
     probe_pct |-> 20,
     add_pct |-> 30,
     tp1_scale_out_pct |-> 20,
     tp2_scale_out_pct |-> 20,
     max_wait_candles |-> 2,
     min_move_pct |-> 10,
     breakeven_after_progress |-> TRUE,
     trail_after_progress |-> TRUE,
     stop_buffer_pct |-> 5,
     add_trigger_up_pct |-> 10,
     time_stop_candles |-> 3,
     min_liquidity_usd |-> 1000,
     max_slippage_bps |-> 150,
     top_n_per_tick |-> 1,
     min_candidates_before_rank |-> 0,
     fee_bps_per_side |-> 0,
     slippage_bps |-> 0]

Configs ==
    {BaseConfig,
     [BaseConfig EXCEPT !.cooldown_candles = 0],
     [BaseConfig EXCEPT !.probe_pct = 0, !.tp1_scale_out_pct = 100, !.time_stop_candles = 0,
                        !.max_wait_candles = 0],
     [BaseConfig EXCEPT !.cooldown_candles = 1, !.lockout_candles = 0,
                        !.confirm_min_close_above_pct = 0, !.time_stop_candles = 0,
                        !.max_wait_candles = 0, !.breakeven_after_progress = FALSE,
                        !.trail_after_progress = FALSE]}

\* ----------------------------------------------------------------- snapshots
Snapshot(idx, close, low, high) ==
    [candle_index |-> idx,
     now_ts |-> IF idx = None THEN 0 ELSE idx * CandleSeconds,
     last_close |-> close,
     last_low |-> low,
     last_high |-> high,
     breakout_strict |-> FALSE,
     range_compressed |-> FALSE,
     price_expanded |-> FALSE,
     chain_override |-> FALSE,
     highest_close |-> close,
     avg_volume |-> 0,
     current_vol |-> 0,
     trail_low |-> None,
     support_low |-> None,
     resistance_levels |-> <<>>]

NoSnapshot == Snapshot(None, 0, 0, 0)

Volumes == {<<1, 1>>, <<1, 3>>}

\* resistance_levels of build_snapshot: at most 3 zones with low >= last_close,
\* ascending by low (the model keeps the lows).  The policy only asks whether
\* the close has reached a low, so a low is the close or one step above it.
ResistanceLevels(close) ==
    LET above == {p \in Prices : p >= close /\ p <= close + 1}
        sorted(q) == \A i \in 1..Len(q) - 1 : q[i] <= q[i + 1]
    IN {q \in UNION {[1..n -> above] : n \in 0..3} : sorted(q)}

\* support_level of build_snapshot: the highest zone with high <= last_close,
\* or none (the model keeps its low, which is then at most the close: the
\* close itself stands for every such low)
SupportLows(close) == {None, close}

\* the lowest low of the trailing window, None when the window is too short
TrailLows == {None, 10}

CloseLow == {cl \in Prices \X Prices : cl[2] <= cl[1]}

CloseHigh == {ch \in Prices \X Prices : ch[2] >= ch[1]}

\* the bars and features of a snapshot, before its candle index is known.  A
\* field the policy does not read in the instrument's status keeps the value
\* Snapshot gives it.
ScoutBars ==
    {[Snapshot(None, cl[1], cl[2], cl[1]) EXCEPT !.breakout_strict = TRUE, !.range_compressed = TRUE,
          !.price_expanded = TRUE, !.highest_close = hc, !.avg_volume = v[1], !.current_vol = v[2]] :
        cl \in CloseLow, hc \in Prices, v \in Volumes}
    \cup
    {[Snapshot(None, cl[1], cl[2], cl[1]) EXCEPT !.range_compressed = f[1], !.price_expanded = f[2],
          !.chain_override = co] :
        cl \in CloseLow, f \in {<<FALSE, FALSE>>, <<FALSE, TRUE>>, <<TRUE, FALSE>>}, co \in BOOLEAN}

ProbeBars ==
    {[Snapshot(None, ch[1], ch[1], ch[2]) EXCEPT !.trail_low = tl] : ch \in CloseHigh, tl \in TrailLows}

TradeBars ==
    UNION {{[Snapshot(None, ch[1], ch[1], ch[2]) EXCEPT !.trail_low = tl, !.support_low = sl,
                 !.resistance_levels = rl] :
               tl \in TrailLows, sl \in SupportLows(ch[1]), rl \in ResistanceLevels(ch[1])} :
           ch \in CloseHigh}

CooldownBars == {Snapshot(None, close, close, close) : close \in Prices}

Bars(status) ==
    IF status = STATE_SCOUT THEN ScoutBars
    ELSE IF status = STATE_PROBE THEN ProbeBars
    ELSE IF status = STATE_TRADE THEN TradeBars
    ELSE CooldownBars

\* the snapshots of a tick at candle index idx
Snapshots(idx, status) ==
    {[bar EXCEPT !.candle_index = idx, !.now_ts = idx * CandleSeconds] : bar \in Bars(status)}

Liquidity == {0, 5000, 100000}

ChainFeatures ==
    {NoChainFeatures,
     [NoChainFeatures EXCEPT !.present = TRUE],
     [NoChainFeatures EXCEPT !.present = TRUE, !.chain_liquidity_remove_events = 1,
                             !.chain_tx_velocity_per_min = 9, !.chain_tx_count = 10]}

NoProposal == [action |-> ACTION_HOLD, reason_codes |-> <<>>]

NoItem == [snapshot |-> NoSnapshot, proposal |-> NoProposal]

\* ------------------------------------------------- run_engine, one instrument
Init ==
    /\ cfg \in Configs
    /\ state = TokenState
    /\ cursor = 0
    /\ pc = "advance"
    /\ item = NoItem

\* runner.py lines 616-642: fetch the candles, move the cursor by at most one
\* candle (it stays when the feed has no new candle), advance_time
AdvanceStep ==
    /\ pc = "advance"
    /\ state.time_in_trade < MaxTimeInTrade
    /\ \E next \in {cursor, cursor + 1} :
          /\ next <= MaxIndex
          /\ cursor' = next
    /\ state' = advance_time(state)
    /\ pc' = "propose"
    /\ UNCHANGED <<cfg, item>>

\* the snapshot as the stages after the policy read it: the candle index and
\* timestamp, the last close and low, the feature map and the last volume
ItemSnapshot(snapshot) ==
    [snapshot EXCEPT !.last_high = snapshot.last_close, !.trail_low = None,
                     !.support_low = None, !.resistance_levels = <<>>]

\* runner.py lines 644-667: build_snapshot at candle_index = cursor - 1 (the
\* model's cursor is that index), propose_action
ProposeStep ==
    /\ pc = "propose"
    /\ \E snapshot \in Snapshots(cursor, state.status) :
          LET p == propose_action(snapshot, state, cfg) IN
          /\ state' = p.state
          /\ item' = [snapshot |-> ItemSnapshot(snapshot),
                      proposal |-> [action |-> p.action, reason_codes |-> p.reason_codes]]
    /\ pc' = "resolve"
    /\ UNCHANGED <<cfg, cursor>>

\* the decision of a tick: ranking, validation, chain-risk overlay
decide(proposal, ranked_out, liquidity_usd, cf, s, c) ==
    _apply_chain_risk(validate_action(_rank_entry_proposals(proposal, ranked_out), liquidity_usd, s, c), cf)

\* a tick that applies what the policy proposed, whatever the stages decided
resolve_applies_proposal(s, it, ranked_out, liquidity_usd, cf, c) ==
    IF it.proposal.action /= ACTION_HOLD
    THEN apply_action(s, it.proposal.action, it.snapshot, c, it.proposal.reason_codes)
    ELSE s

\* runner.py lines 669-840
resolve(s, it, ranked_out, liquidity_usd, cf, c) ==
    LET validated == decide(it.proposal, ranked_out, liquidity_usd, cf, s, c) IN
    IF validated.action /= ACTION_HOLD
    THEN apply_action(s, validated.action, it.snapshot, c, validated.reason_codes)
    ELSE s

ResolveStep ==
    /\ pc = "resolve"
    /\ \E ranked_out \in BOOLEAN, liquidity_usd \in Liquidity, cf \in ChainFeatures :
          state' = resolve(state, item, ranked_out, liquidity_usd, cf, cfg)
    /\ item' = NoItem
    /\ pc' = "advance"
    /\ UNCHANGED <<cfg, cursor>>

Next == AdvanceStep \/ ProposeStep \/ ResolveStep

Spec == Init /\ [][Next]_vars

\* run_engine under its scheduling: the tick loop runs every stage of every
\* tick (runner.py line 602)
FairSpec == Init /\ [][Next]_vars /\ WF_vars(AdvanceStep) /\ WF_vars(ProposeStep) /\ WF_vars(ResolveStep)

\* ------------------------------------- the state machine driven by any caller
SMSnapshots == {Snapshot(None, 10, 9, 10), Snapshot(1, 11, 10, 11)}

SMConfigs ==
    {BaseConfig,
     [BaseConfig EXCEPT !.cooldown_candles = 0, !.probe_pct = 0],
     [BaseConfig EXCEPT !.cooldown_candles = 1, !.tp1_scale_out_pct = 100, !.tp2_scale_out_pct = 50]}

SMActions == Actions \cup {"UNKNOWN"}

SMReasons == {<<"TIME_STOP">>, <<"STRUCT_STOP">>}

SMInit ==
    /\ cfg \in SMConfigs
    /\ state = TokenState
    /\ cursor = 0
    /\ pc = "sm"
    /\ item = NoItem

SMAdvance ==
    /\ pc = "sm"
    /\ state.time_in_trade < MaxTimeInTrade
    /\ state' = advance_time(state)
    /\ UNCHANGED <<cfg, cursor, pc, item>>

SMApply ==
    /\ pc = "sm"
    /\ \E action \in SMActions, snapshot \in SMSnapshots, reasons \in SMReasons :
          /\ action = ACTION_SCALE_OUT_20 => state.scale_out_stage < MaxScaleOuts
          /\ action = ACTION_ADD_BUY => state.position_usd < MaxPositionUsd
          /\ state' = apply_action(state, action, snapshot, cfg, reasons)
    /\ UNCHANGED <<cfg, cursor, pc, item>>

SMNext == SMAdvance \/ SMApply

SpecSM == SMInit /\ [][SMNext]_vars

\* ------------------------------------------------- can_reenter on its inputs
ReenterIndexes == {None} \cup (0..MaxReenterIndex)

ReenterTimes == {None, 0, 60, 180}

ReenterConfigs ==
    {[BaseConfig EXCEPT !.lockout_candles = l, !.min_breakout_pct = m] : l \in 0..2, m \in {0, 10}}

ReenterInit ==
    /\ cfg \in ReenterConfigs
    /\ state = TokenState
    /\ cursor = 0
    /\ pc = "call"
    /\ item \in [now_ts : ReenterTimes \ {None},
                 last_exit_ts : ReenterTimes,
                 last_exit_index : {None, 0, 1},
                 last_exit_price : {None, 10},
                 current_close : Prices,
                 vol_ok : BOOLEAN,
                 last_exit_was_stop : BOOLEAN,
                 interval_sec : {None, 60},
                 now_index : ReenterIndexes,
                 result : {FALSE}]

ReenterCall ==
    /\ pc = "call"
    /\ item' = [item EXCEPT !.result =
                    can_reenter(item.now_ts, item.last_exit_ts, item.last_exit_index, item.last_exit_price, item.current_close, cfg, item.vol_ok, item.last_exit_was_stop, item.interval_sec, item.now_index)]
    /\ pc' = "done"
    /\ UNCHANGED <<cfg, state, cursor>>

ReenterNext == ReenterCall

SpecReenter == ReenterInit /\ [][ReenterNext]_vars

\* ------------------------------------- _rank_entry_proposals on its inputs
\* the TokenState a proposal of the given action comes with
RankState(action) ==
    IF action \in {ACTION_HOLD, ACTION_PROBE_BUY} THEN TokenState
    ELSE IF action = ACTION_ADD_BUY
    THEN [TokenState EXCEPT !.status = STATE_PROBE, !.position_usd = 200, !.probe_entry_price = 10,
                            !.probe_entry_low = 10, !.entry_price = 10, !.entry_index = 0]
    ELSE [TokenState EXCEPT !.status = STATE_TRADE, !.position_usd = 500, !.probe_entry_price = 10,
                            !.probe_entry_low = 10, !.entry_price = 10, !.entry_index = 0,
                            !.add_entry_price = 11]

RankReasons(action) ==
    IF action = ACTION_HOLD THEN <<"NO_PRICE_EXPANSION">>
    ELSE IF action = ACTION_PROBE_BUY THEN <<"BREAKOUT_CONFIRM">>
    ELSE IF action = ACTION_ADD_BUY THEN <<"ADD_TRIGGER">>
    ELSE IF action = ACTION_SCALE_OUT_20 THEN <<"R1_TOUCH">>
    ELSE <<"TIME_STOP">>

RankItem(action, score) ==
    [proposal |-> [action |-> action, reason_codes |-> RankReasons(action)],
     state |-> RankState(action),
     momentum_score |-> score]

Scores == 0..MaxScore

RankItems ==
    {RankItem(ACTION_PROBE_BUY, score) : score \in Scores}
    \cup {RankItem(action, 0) : action \in Actions \ {ACTION_PROBE_BUY}}

RankConfigs ==
    {[BaseConfig EXCEPT !.top_n_per_tick = n, !.min_candidates_before_rank = m] :
        n \in 0..MaxTopN, m \in {0, 2, 3}}

RankInit ==
    /\ cfg \in RankConfigs
    /\ state = TokenState
    /\ cursor = 0
    /\ pc = "call"
    /\ \E proposals \in UNION {[1..n -> RankItems] : n \in 0..MaxProposals} :
          item = [proposals |-> proposals, ranked |-> proposals]

RankCall ==
    /\ pc = "call"
    /\ item' = [item EXCEPT !.ranked = rank_entry_proposals(item.proposals, cfg)]
    /\ pc' = "done"
    /\ UNCHANGED <<cfg, state, cursor>>

RankNext == RankCall

SpecRank == RankInit /\ [][RankNext]_vars

\* ----------------------------------------------- validate_action on its inputs
\* the TokenStates a proposal is validated against: flat outside a holding
\* status, any position (an emptied one included) inside
ValidateStates ==
    {[TokenState EXCEPT !.status = st] : st \in {STATE_SCOUT, STATE_COOLDOWN}}
    \cup {[TokenState EXCEPT !.status = st, !.position_usd = pos, !.scale_out_stage = stage,
                             !.probe_entry_price = 10, !.probe_entry_low = 10, !.entry_price = 10,
                             !.entry_index = 0] :
             st \in {STATE_PROBE, STATE_TRADE}, pos \in {0, 200, 500}, stage \in 0..MaxScaleOuts}

ValidateLiquidity == {0, 500, 5000, 100000}

ValidateConfigs ==
    {BaseConfig,
     [BaseConfig EXCEPT !.min_liquidity_usd = 0, !.max_slippage_bps = 0],
     [BaseConfig EXCEPT !.min_liquidity_usd = 10000, !.max_slippage_bps = 5000]}

ValidateInit ==
    /\ cfg \in ValidateConfigs
    /\ state \in ValidateStates
    /\ cursor = 0
    /\ pc = "call"
    /\ \E action \in Actions, liquidity_usd \in ValidateLiquidity :
          item = [proposal |-> [action |-> action, reason_codes |-> RankReasons(action)],
                  liquidity_usd |-> liquidity_usd,
                  validated |-> NoProposal]

ValidateCall ==
    /\ pc = "call"
    /\ item' = [item EXCEPT !.validated = validate_action(item.proposal, item.liquidity_usd, state, cfg)]
    /\ pc' = "done"
    /\ UNCHANGED <<cfg, state, cursor>>

ValidateNext == ValidateCall

SpecValidate == ValidateInit /\ [][ValidateNext]_vars

\* --------------------------------------------- _apply_chain_risk on its inputs
\* the chain feature maps: the empty map, and every map of the six features
\* around their thresholds
ChainRiskFeatures ==
    {NoChainFeatures}
    \cup [present : {TRUE},
          chain_net_native : {-1, 0},
          chain_net_token : {-1, 0},
          chain_liquidity_events : {-1, 0},
          chain_liquidity_remove_events : {0, 1},
          chain_tx_count : {39, 40},
          chain_tx_velocity_per_min : {7, 8}]

ChainRiskInit ==
    /\ cfg = BaseConfig
    /\ state = TokenState
    /\ cursor = 0
    /\ pc = "call"
    /\ \E action \in Actions, cf \in ChainRiskFeatures :
          item = [proposal |-> [action |-> action, reason_codes |-> RankReasons(action)],
                  chain_features |-> cf,
                  validated |-> NoProposal]

ChainRiskCall ==
    /\ pc = "call"
    /\ item' = [item EXCEPT !.validated = _apply_chain_risk(item.proposal, item.chain_features)]
    /\ pc' = "done"
    /\ UNCHANGED <<cfg, state, cursor>>

ChainRiskNext == ChainRiskCall

SpecChainRisk == ChainRiskInit /\ [][ChainRiskNext]_vars

\* ------------- run_engine for an instrument whose chain features always warn
\* the chain feature maps that show net outflow or liquidity removal, and no
\* other signal
RiskyChainFeatures ==
    {cf \in ChainRiskFeatures :
        /\ cf.present
        /\ cf.chain_liquidity_events = 0
        /\ ~(cf.chain_tx_velocity_per_min >= 8 /\ cf.chain_tx_count < 40)
        /\ \/ cf.chain_net_native < 0
           \/ cf.chain_net_token < 0
           \/ cf.chain_liquidity_remove_events > 0}

RiskyResolveStep ==
    /\ pc = "resolve"
    /\ \E ranked_out \in BOOLEAN, liquidity_usd \in Liquidity, cf \in RiskyChainFeatures :
          state' = resolve(state, item, ranked_out, liquidity_usd, cf, cfg)
    /\ item' = NoItem
    /\ pc' = "advance"
    /\ UNCHANGED <<cfg, cursor>>

RiskyNext == AdvanceStep \/ ProposeStep \/ RiskyResolveStep

SpecRisky == Init /\ [][RiskyNext]_vars

\* --------------------------------------- apply_action(EXIT_FULL) on its inputs
\* TokenStates of every status: fresh, armed after an earlier exit, holding
\* with and without progress, scaled out, cooling down
ExitStates ==
    {TokenState,
     [TokenState EXCEPT !.pending_breakout_index = 1, !.pending_breakout_level = 9,
                        !.pending_breakout_expires_index = 4, !.last_exit_ts = 0,
                        !.last_exit_price = 11, !.last_exit_index = 0, !.last_exit_was_stop = TRUE],
     [TokenState EXCEPT !.status = STATE_COOLDOWN, !.cooldown_left = 2, !.last_exit_ts = 0,
                        !.last_exit_price = 9, !.last_exit_index = 0]}
    \cup {[TokenState EXCEPT !.status = STATE_PROBE, !.position_usd = 200, !.probe_entry_price = 10,
                             !.probe_entry_low = 9, !.entry_price = 10, !.entry_index = 0,
                             !.max_favorable_price = 11, !.time_in_trade = t, !.progress_hit = hit,
                             !.progress_deadline_index = IF hit THEN None ELSE 2] :
             t \in 0..MaxTimeInTrade, hit \in BOOLEAN}
    \cup {[TokenState EXCEPT !.status = STATE_TRADE, !.position_usd = 500 - 100 * stage,
                             !.probe_entry_price = 10, !.probe_entry_low = 9, !.add_entry_price = 11,
                             !.entry_price = 10, !.entry_index = 0, !.max_favorable_price = 11,
                             !.time_in_trade = t, !.scale_out_stage = stage, !.progress_hit = TRUE,
                             !.last_exit_ts = 0, !.last_exit_price = 9, !.last_exit_index = 0] :
             t \in 1..MaxTimeInTrade, stage \in 0..MaxScaleOuts}

\* the exit reason codes handed to apply_action; <<>> is none at all
ExitReasons ==
    {<<>>, <<"TIME_STOP">>, <<"STRUCT_STOP">>, <<"TRAIL_STOP">>, <<"R3_TOUCH">>, <<"STRUCT_STOP", "LIQUIDITY_RISK">>}

ExitConfigs == {[BaseConfig EXCEPT !.cooldown_candles = n] : n \in 0..MaxCooldown}

ExitInit ==
    /\ cfg \in ExitConfigs
    /\ state \in ExitStates
    /\ cursor = 0
    /\ pc = "call"
    /\ \E snapshot \in SMSnapshots, reasons \in ExitReasons :
          item = [snapshot |-> snapshot, exit_reason_codes |-> reasons]

ExitCall ==
    /\ pc = "call"
    /\ state' = apply_action(state, ACTION_EXIT_FULL, item.snapshot, cfg, item.exit_reason_codes)
    /\ pc' = "done"
    /\ UNCHANGED <<cfg, cursor, item>>

ExitNext == ExitCall

SpecExit == ExitInit /\ [][ExitNext]_vars

\* --------------------------------- run_engine and run_backtest, all instruments
\* In this specification state maps every candidate to its TokenState, cursor
\* is the tick (and the candle index of its snapshots), and item holds the
\* tick's proposals list with the positions of the two loops over it.
Candidates == <<"A", "B">>

TickBars ==
    {[Snapshot(None, 10, 10, 10) EXCEPT !.breakout_strict = TRUE, !.range_compressed = TRUE,
          !.price_expanded = TRUE, !.highest_close = 9, !.avg_volume = 1, !.current_vol = 1],
     Snapshot(None, 10, 10, 10),
     Snapshot(None, 11, 11, 11),
     Snapshot(None, 9, 9, 9)}

TickSnapshots(idx) ==
    {[bar EXCEPT !.candle_index = idx, !.now_ts = idx * CandleSeconds] : bar \in TickBars}

TickScores == {0, 1}

TickLiquidity == {0, 100000}

TickChainFeatures ==
    {NoChainFeatures, [NoChainFeatures EXCEPT !.present = TRUE, !.chain_net_native = -1]}

TickConfigs == {BaseConfig, [BaseConfig EXCEPT !.top_n_per_tick = 0]}

NoTick == [proposals |-> <<>>, visited |-> {}, ranked |-> FALSE, k |-> 1, applied |-> {}]

TickInit ==
    /\ cfg \in TickConfigs
    /\ state = [c \in {Candidates[n] : n \in 1..Len(Candidates)} |-> TokenState]
    /\ cursor = 0
    /\ pc = "collect"
    /\ item = NoTick

\* a loop that hands over to the ranker after its first candidate
collected_some(visited) == visited /= {}

\* the loop over the candidates is over: every candidate was visited
collected(visited) == visited = {Candidates[n] : n \in 1..Len(Candidates)}

\* runner.py lines 605-667, simulate.py lines 438-464: the next candidate of
\* the tick: advance_time, build_snapshot, propose_action, proposals.append
TickCollect ==
    /\ pc = "collect"
    /\ ~collected(item.visited)
    /\ LET c == Candidates[Cardinality(item.visited) + 1]
           s1 == advance_time(state[c])
       IN \E snapshot \in TickSnapshots(cursor), score \in TickScores :
            LET p == propose_action(snapshot, s1, cfg) IN
            /\ state' = [state EXCEPT ![c] = p.state]
            /\ item' = [item EXCEPT
                          !.visited = @ \cup {c},
                          !.proposals = Append(@, [instrument |-> c,
                                                   snapshot |-> ItemSnapshot(snapshot),
                                                   proposal |-> [action |-> p.action, reason_codes |-> p.reason_codes],
                                                   momentum_score |-> score])]
    /\ UNCHANGED <<cfg, cursor, pc>>

\* runner.py lines 619-639, simulate.py lines 439-443: a candidate without
\* enough candles is passed over
TickSkip ==
    /\ pc = "collect"
    /\ ~collected(item.visited)
    /\ item' = [item EXCEPT !.visited = @ \cup {Candidates[Cardinality(item.visited) + 1]}]
    /\ UNCHANGED <<cfg, state, cursor, pc>>

\* runner.py line 669, simulate.py line 466
TickRank ==
    /\ pc = "collect"
    /\ collected(item.visited)
    /\ item' = [item EXCEPT !.proposals = rank_entry_proposals(@, cfg), !.ranked = TRUE]
    /\ pc' = "resolve"
    /\ UNCHANGED <<cfg, state, cursor>>

\* runner.py lines 675-840, simulate.py lines 468-546: the next item of the
\* proposals list: validate_action, the chain-risk overlay, apply_action
TickResolve ==
    /\ pc = "resolve"
    /\ item.k <= Len(item.proposals)
    /\ LET it == item.proposals[item.k]
           s == state[it.instrument]
       IN \E liquidity_usd \in TickLiquidity, cf \in TickChainFeatures :
            LET validated == _apply_chain_risk(validate_action(it.proposal, liquidity_usd, s, cfg), cf) IN
            IF validated.action /= ACTION_HOLD
            THEN /\ state' = [state EXCEPT ![it.instrument] =
                                 apply_action(s, validated.action, it.snapshot, cfg, validated.reason_codes)]
                 /\ item' = [item EXCEPT !.k = @ + 1, !.applied = @ \cup {it.instrument}]
            ELSE /\ state' = state
                 /\ item' = [item EXCEPT !.k = @ + 1]
    /\ UNCHANGED <<cfg, cursor, pc>>

\* runner.py line 602, simulate.py line 436: the next tick
TickEnd ==
    /\ pc = "resolve"
    /\ item.k > Len(item.proposals)
    /\ cursor < MaxTick
    /\ cursor' = cursor + 1
    /\ item' = NoTick
    /\ pc' = "collect"
    /\ UNCHANGED <<cfg, state>>

TickNext == TickCollect \/ TickSkip \/ TickRank \/ TickResolve \/ TickEnd

SpecTick == TickInit /\ [][TickNext]_vars

\* -------------------------- run_engine with fetches that can fail in a tick
\* runner.py lines 616-619: get_pair or _get_candles raises for the next
\* candidate (raise_for_status in app/data/client.py, UpstreamRateLimited or
\* UpstreamBadResponse from a market provider).  run_engine has no handler
\* around the two awaits, nor around the loops, so the exception leaves
\* run_engine: the tick and the run end there.
TickFetchRaises ==
    /\ pc = "collect"
    /\ ~collected(item.visited)
    /\ pc' = "raised"
    /\ UNCHANGED <<cfg, state, cursor, item>>

FetchNext == TickCollect \/ TickSkip \/ TickFetchRaises \/ TickRank \/ TickResolve \/ TickEnd

SpecFetch == TickInit /\ [][FetchNext]_vars

\* ------------------------------------------------ simulate_pair, one pair
\* In this specification cursor is the candle index i of the loop and item
\* holds, next to the snapshot and the proposal of the iteration, the
\* portfolio: cash and position_cost_usd in dollars, position_qty in
\* 1/QtyScale tokens.  An execution price is in 1/10000 dollars.  The floats
\* of the source are rounded down to these units.
QtyScale == 100

\* config["positioning"]["capital_usd"], the cash simulate_pair starts with
BacktestConfigs ==
    {BaseConfig,
     [BaseConfig EXCEPT !.fee_bps_per_side = 30, !.slippage_bps = 20],
     [BaseConfig EXCEPT !.probe_pct = 60, !.add_pct = 60, !.time_stop_candles = 0, !.max_wait_candles = 0]}

\* the liquidity simulate_pair gives every PairStats
backtest_liquidity(c) == Max(c.min_liquidity_usd * 2, 100000)

_apply_costs(price, side, c) ==
    IF side = "buy" THEN price * (10000 + c.fee_bps_per_side + c.slippage_bps)
    ELSE price * (10000 - c.fee_bps_per_side - c.slippage_bps)

NoBacktestItem(cash, position_qty, position_cost_usd) ==
    [snapshot |-> NoSnapshot, proposal |-> NoProposal, cash |-> cash,
     position_qty |-> position_qty, position_cost_usd |-> position_cost_usd]

BacktestInit ==
    /\ cfg \in BacktestConfigs
    /\ state = TokenState
    /\ cursor = 0
    /\ pc = "bt_advance"
    /\ item = NoBacktestItem(cfg.capital_usd, 0, 0)

\* simulate.py lines 273-286: the next candle of the series, advance_time
BacktestAdvance ==
    /\ pc = "bt_advance"
    /\ cursor < MaxBacktestIndex
    /\ cursor' = cursor + 1
    /\ state' = advance_time(state)
    /\ pc' = "bt_propose"
    /\ UNCHANGED <<cfg, item>>

\* simulate.py lines 287-288: build_snapshot at candle_index = i, propose_action
BacktestPropose ==
    /\ pc = "bt_propose"
    /\ \E snapshot \in Snapshots(cursor, state.status) :
          LET p == propose_action(snapshot, state, cfg) IN
          /\ state' = p.state
          /\ item' = [item EXCEPT !.snapshot = ItemSnapshot(snapshot),
                                  !.proposal = [action |-> p.action, reason_codes |-> p.reason_codes]]
    /\ pc' = "bt_resolve"
    /\ UNCHANGED <<cfg, cursor>>

\* simulate.py lines 296-311: a buy, skipped when the cash does not cover it
backtest_buy(it, notional_usd, c) ==
    LET exec_price == _apply_costs(it.snapshot.last_close, "buy", c)
        qty == (notional_usd * 10000 * QtyScale) \div Max(exec_price, 1)
    IN [it EXCEPT !.cash = @ - notional_usd,
                  !.position_qty = @ + qty,
                  !.position_cost_usd = @ + notional_usd]

\* a sale that leaves the cost basis of the sold part in the portfolio
backtest_sell_keeps_cost(it, scale_pct, c) ==
    LET sell_qty == (it.position_qty * scale_pct) \div 100
        exec_price == _apply_costs(it.snapshot.last_close, "sell", c)
        proceeds == (sell_qty * exec_price) \div (10000 * QtyScale)
    IN [it EXCEPT !.cash = @ + proceeds,
                  !.position_qty = @ - sell_qty]

\* simulate.py lines 312-344: a sale of scale_pct percent of the position
backtest_sell(it, scale_pct, c) ==
    LET sell_qty == (it.position_qty * scale_pct) \div 100
        exec_price == _apply_costs(it.snapshot.last_close, "sell", c)
        proceeds == (sell_qty * exec_price) \div (10000 * QtyScale)
        cost_basis == (it.position_cost_usd * sell_qty) \div it.position_qty
    IN [it EXCEPT !.cash = @ + proceeds,
                  !.position_qty = @ - sell_qty,
                  !.position_cost_usd = @ - cost_basis]

\* simulate.py lines 289-353 (run_backtest: lines 475-546): validate_action,
\* the trade on the portfolio, apply_action, and the assignment of the
\* portfolio's cost basis to state.position_usd
backtest_resolve(s, it, c) ==
    LET validated == validate_action(it.proposal, backtest_liquidity(c), s, c)
        notional_usd == _action_notional_usd(validated.action, s, c)
        scale_pct == IF validated.action = ACTION_SCALE_OUT_20
                     THEN (IF s.scale_out_stage = 0 THEN c.tp1_scale_out_pct ELSE c.tp2_scale_out_pct)
                     ELSE 100
        skipped == [state |-> s, item |-> it]
    IN
    IF validated.action = ACTION_HOLD THEN skipped
    ELSE IF validated.action \in {ACTION_PROBE_BUY, ACTION_ADD_BUY} /\ it.cash < notional_usd THEN skipped
    ELSE IF validated.action \notin {ACTION_PROBE_BUY, ACTION_ADD_BUY} /\ it.position_qty <= 0 THEN skipped
    ELSE
      LET traded == IF validated.action \in {ACTION_PROBE_BUY, ACTION_ADD_BUY}
                    THEN backtest_buy(it, notional_usd, c)
                    ELSE backtest_sell(it, scale_pct, c)
      IN [state |-> [apply_action(s, validated.action, it.snapshot, c, validated.reason_codes)
                        EXCEPT !.position_usd = traded.position_cost_usd],
          item |-> traded]

BacktestResolve ==
    /\ pc = "bt_resolve"
    /\ LET r == backtest_resolve(state, item, cfg) IN
          /\ state' = r.state
          /\ item' = NoBacktestItem(r.item.cash, r.item.position_qty, r.item.position_cost_usd)
    /\ pc' = "bt_advance"
    /\ UNCHANGED <<cfg, cursor>>

BacktestNext == BacktestAdvance \/ BacktestPropose \/ BacktestResolve

SpecBacktest == BacktestInit /\ [][BacktestNext]_vars

\* ------------------------------- the drivers of a TokenState, side by side
\* run_engine on one instrument and simulate_pair on one pair
DriversInit == Init \/ BacktestInit

DriversNext == AdvanceStep \/ ProposeStep \/ ResolveStep \/ BacktestAdvance \/ BacktestPropose \/ BacktestResolve

SpecDrivers == DriversInit /\ [][DriversNext]_vars

\* ------------------- run_engine for an instrument that is cooling down
\* the TokenStates right after an exit from a held position
CooldownStates(c) ==
    {apply_action(s, ACTION_EXIT_FULL, snapshot, c, reasons) :
        s \in {x \in ExitStates : x.status \in {STATE_PROBE, STATE_TRADE}},
        snapshot \in SMSnapshots,
        reasons \in {<<"TIME_STOP">>, <<"STRUCT_STOP">>}}

\* every bar the feed can produce, whatever the status it was built for
AnyBars == ScoutBars \cup ProbeBars \cup TradeBars \cup CooldownBars

CooldownConfigs == {[BaseConfig EXCEPT !.cooldown_candles = n] : n \in 1..MaxCooldown + 1}

CooldownInit ==
    /\ cfg \in CooldownConfigs
    /\ state \in CooldownStates(cfg)
    /\ cursor = 1
    /\ pc = "advance"
    /\ item = NoItem

\* runner.py lines 644-667 while the instrument is in COOLDOWN
CooldownProposeStep ==
    /\ pc = "propose"
    /\ state.status = STATE_COOLDOWN
    /\ \E bar \in AnyBars :
          LET snapshot == [bar EXCEPT !.candle_index = cursor, !.now_ts = cursor * CandleSeconds]
              p == propose_action(snapshot, state, cfg)
          IN /\ state' = p.state
             /\ item' = [snapshot |-> ItemSnapshot(snapshot),
                         proposal |-> [action |-> p.action, reason_codes |-> p.reason_codes]]
    /\ pc' = "resolve"
    /\ UNCHANGED <<cfg, cursor>>

CooldownNext == AdvanceStep \/ CooldownProposeStep \/ ResolveStep

SpecCooldown == CooldownInit /\ [][CooldownNext]_vars

\* ---------------------------------- propose_action in SCOUT on its inputs
\* SCOUT TokenStates: fresh or after an exit (a stop or not), with and without
\* a breakout pending since candle 1
ScoutStates ==
    {[s EXCEPT !.pending_breakout_index = p[1], !.pending_breakout_level = p[2],
               !.pending_breakout_expires_index = p[3]] :
        s \in {TokenState}
              \cup {[TokenState EXCEPT !.last_exit_ts = 60, !.last_exit_price = 10, !.last_exit_index = 1,
                                       !.last_exit_was_stop = stop] : stop \in BOOLEAN},
        p \in {<<None, None, None>>, <<1, 9, 4>>, <<1, 10, 4>>}}

\* snapshots as a caller can hand them in: every combination of the four
\* flags, with and without a candle index
ScoutSnapshots ==
    {[Snapshot(idx, cl[1], cl[2], cl[1]) EXCEPT
          !.breakout_strict = f[1], !.range_compressed = f[2], !.price_expanded = f[3],
          !.chain_override = f[4], !.highest_close = hc, !.avg_volume = v[1], !.current_vol = v[2]] :
        idx \in {None, 2, 5}, cl \in CloseLow, f \in BOOLEAN \X BOOLEAN \X BOOLEAN \X BOOLEAN,
        hc \in {9, 10}, v \in Volumes}

ScoutConfigs == {BaseConfig, [BaseConfig EXCEPT !.lockout_candles = 0, !.confirm_min_close_above_pct = 0]}

ScoutInit ==
    /\ cfg \in ScoutConfigs
    /\ state \in ScoutStates
    /\ cursor = 0
    /\ pc = "call"
    /\ \E snapshot \in ScoutSnapshots : item = [snapshot |-> snapshot, proposal |-> NoProposal]

ScoutCall ==
    /\ pc = "call"
    /\ LET p == propose_action(item.snapshot, state, cfg) IN
          /\ state' = p.state
          /\ item' = [item EXCEPT !.proposal = [action |-> p.action, reason_codes |-> p.reason_codes]]
    /\ pc' = "done"
    /\ UNCHANGED <<cfg, cursor>>

ScoutNext == ScoutCall

SpecScout == ScoutInit /\ [][ScoutNext]_vars

\* ------------------------------------- the momentum score, both versions
\* A candle is [c, h, l, v] in small integers; a score is in thousandths, a
\* relative range in 1/10000, a multiple in percent.
\* median of the statistics module, doubled: the middle element of the sorted
\* list, or the sum of the two middle ones
Ascending(seq) ==
    CHOOSE q \in [1..Len(seq) -> {seq[n] : n \in 1..Len(seq)}] :
        /\ \A n \in 1..Len(seq) - 1 : q[n] <= q[n + 1]
        /\ \A x \in {seq[n] : n \in 1..Len(seq)} :
              Cardinality({n \in 1..Len(seq) : q[n] = x}) = Cardinality({n \in 1..Len(seq) : seq[n] = x})

median2(seq) ==
    LET q == Ascending(seq)
        n == Len(seq)
    IN IF n % 2 = 1 THEN 2 * q[(n + 1) \div 2] ELSE q[n \div 2] + q[n \div 2 + 1]

\* 1000 * math.log1p(x) for x >= 0 given in percent, by the first two terms
\* of 2 * atanh(x / (2 + x))
log1p(x) ==
    LET z == (1000 * x) \div (200 + x) IN 2 * (z + (z * z * z) \div 3000000)

\* the score of a window whose first candle is the reference: the part the
\* two functions spell out alike (runner.py lines 181-209, features.py lines
\* 117-145)
window_score(window) ==
    LET n == Len(window)
        close_now == window[n].c
        close_then == window[1].c
        ret == (100000 * close_now) \div close_then - 100000
        vols == [k \in 1..n - 1 |-> window[k].v]
        median_vol2 == IF n > 1 THEN median2(vols) ELSE 0
        vol_mult == IF median_vol2 > 0 THEN (vols[n - 1] * 200) \div median_vol2 ELSE 100
        priced == SelectSeq(SubSeq(window, 1, n - 1), LAMBDA cd : cd.c > 0)
        ranges == [k \in 1..Len(priced) |-> ((priced[k].h - priced[k].l) * 10000) \div priced[k].c]
        median_range2 == IF Len(ranges) > 0 THEN median2(ranges) ELSE 0
        range_now == ((window[n].h - window[n].l) * 10000) \div Max(close_now, 1)
        range_mult == IF median_range2 > 0 THEN (range_now * 200) \div median_range2 ELSE 100
    IN
    IF close_then <= 0 THEN 0
    ELSE ret
         + (IF median_vol2 > 0 THEN 10 * log1p(Max(0, vol_mult - 100)) ELSE 0)
         + (IF median_range2 > 0 THEN 5 * log1p(Max(0, range_mult - 100)) ELSE 0)

LastCandles(candles, n) == SubSeq(candles, Len(candles) - n + 1, Len(candles))

\* runner.py lines 172-214: the total of _momentum_score_detail; a window
\* shorter than lookback + 1 shrinks the lookback to what the candles allow
_momentum_score_detail(candles, lookback) ==
    LET shrunk == IF Len(candles) < lookback + 1 THEN Max(1, Len(candles) - 1) ELSE lookback IN
    IF lookback <= 0 THEN 0
    ELSE IF Len(candles) < shrunk + 1 THEN 0
    ELSE window_score(LastCandles(candles, shrunk + 1))

\* features.py lines 113-145
momentum_score(candles, lookback) ==
    IF Len(candles) < lookback + 1 \/ lookback <= 0 THEN 0
    ELSE window_score(LastCandles(candles, lookback + 1))

MomentumCandles ==
    {[c |-> c, h |-> c + spread, l |-> c, v |-> v] : c \in {0, 10, 11}, spread \in {0, 1}, v \in {1, 3}}

MomentumInit ==
    /\ cfg = BaseConfig
    /\ state = TokenState
    /\ cursor = 0
    /\ pc = "call"
    /\ \E candles \in UNION {[1..n -> MomentumCandles] : n \in 0..MaxCandles}, lookback \in 0..MaxLookback :
          item = [candles |-> candles, lookback |-> lookback, detail_total |-> 0, momentum_score |-> 0]

MomentumCall ==
    /\ pc = "call"
    /\ item' = [item EXCEPT !.detail_total = _momentum_score_detail(item.candles, item.lookback),
                            !.momentum_score = momentum_score(item.candles, item.lookback)]
    /\ pc' = "done"
    /\ UNCHANGED <<cfg, state, cursor>>

MomentumNext == MomentumCall

SpecMomentum == MomentumInit /\ [][MomentumNext]_vars

\* ----------------------- BirdeyeHttpClient.request, HeliusHttpClient.request
\* The two clients run the same loop over the same CircuitBreaker class.  In
\* this specification cursor counts the requests made on one client and item
\* holds the client (max_retries, the breaker), the upstream, and the locals
\* and the outcome of the request in progress.  open stands for
\* time.monotonic() < open_until.
FailureThreshold == 5

\* what an upstream answers: 429, a 5xx, another 4xx, a body that is no JSON,
\* a JSON payload, or no answer at all (httpx.HTTPError)
Responses(upstream) ==
    IF upstream = "flaky" THEN {"429", "5xx", "4xx", "invalid_json", "ok", "HTTPError"}
    ELSE {upstream}

Upstreams == {"429", "5xx", "4xx", "flaky"}

record_success(it) == [it EXCEPT !.failures = 0, !.open = FALSE]

record_failure(it) ==
    IF it.failures + 1 >= FailureThreshold
    THEN [it EXCEPT !.failures = 0, !.open = TRUE]
    ELSE [it EXCEPT !.failures = @ + 1]

\* a loop that sleeps and retries after a rejected request as well
handle_response_retries_rejected(it, response) ==
    IF response \in {"429", "5xx", "4xx"}
    THEN [record_failure(it) EXCEPT
            !.last_error = IF response = "429" THEN "UpstreamRateLimited" ELSE "UpstreamBadResponse",
            !.attempt = @ + 1]
    ELSE IF response = "invalid_json" THEN [it EXCEPT !.result = "UpstreamBadResponse"]
    ELSE IF response = "ok" THEN [record_success(it) EXCEPT !.result = "payload"]
    ELSE [record_failure(it) EXCEPT !.last_error = "HTTPError",
                                    !.attempt = IF it.attempt >= it.max_retries THEN it.max_retries + 1 ELSE @ + 1]

\* one pass of the loop body after the response is in (provider.py lines
\* 149-173): the result is set when the pass returns or raises
handle_response(it, response) ==
    IF response \in {"429", "5xx"}
    THEN [record_failure(it) EXCEPT
            !.last_error = IF response = "429" THEN "UpstreamRateLimited" ELSE "UpstreamBadResponse",
            !.attempt = @ + 1]
    ELSE IF response \in {"4xx", "invalid_json"} THEN [it EXCEPT !.result = "UpstreamBadResponse"]
    ELSE IF response = "ok" THEN [record_success(it) EXCEPT !.result = "payload"]
    ELSE [record_failure(it) EXCEPT !.last_error = "HTTPError",
                                    !.attempt = IF it.attempt >= it.max_retries THEN it.max_retries + 1 ELSE @ + 1]

HttpInit ==
    /\ cfg = BaseConfig
    /\ state = TokenState
    /\ cursor = 0
    /\ pc = "idle"
    /\ \E max_retries \in 0..MaxRetries, upstream \in Upstreams :
          item = [max_retries |-> max_retries, upstream |-> upstream, failures |-> 0, open |-> FALSE,
                  admitted |-> FALSE, attempt |-> 0, sent |-> 0, last_response |-> "",
                  last_error |-> "", result |-> ""]

\* provider.py lines 132-139: request() is called; the breaker is asked once
HttpRequest ==
    /\ pc \in {"idle", "finished"}
    /\ cursor < MaxRequests
    /\ cursor' = cursor + 1
    /\ item' = [item EXCEPT !.admitted = ~item.open, !.attempt = 0, !.sent = 0, !.last_response = "",
                            !.last_error = "",
                            !.result = IF item.open THEN "CircuitBreakerOpen" ELSE ""]
    /\ pc' = IF item.open THEN "finished" ELSE "attempt"
    /\ UNCHANGED <<cfg, state>>

\* provider.py lines 140-173: one attempt
HttpAttempt ==
    /\ pc = "attempt"
    /\ item.attempt <= item.max_retries
    /\ \E response \in Responses(item.upstream) :
          LET it == handle_response([item EXCEPT !.sent = @ + 1, !.last_response = response], response) IN
          /\ item' = it
          /\ pc' = IF it.result /= "" THEN "finished" ELSE "attempt"
    /\ UNCHANGED <<cfg, state, cursor>>

\* provider.py lines 174-176: the loop is over, the last error is raised
HttpRaise ==
    /\ pc = "attempt"
    /\ item.attempt > item.max_retries
    /\ item' = [item EXCEPT !.result = item.last_error]
    /\ pc' = "finished"
    /\ UNCHANGED <<cfg, state, cursor>>

\* the cooldown of the breaker runs out (provider.py lines 88-91)
HttpCooldownElapses ==
    /\ item.open
    /\ item' = [item EXCEPT !.open = FALSE]
    /\ UNCHANGED <<cfg, state, cursor, pc>>

HttpNext == HttpRequest \/ HttpAttempt \/ HttpRaise \/ HttpCooldownElapses

SpecHttp == HttpInit /\ [][HttpNext]_vars

\* --------------------------- build_snapshot and the TRADE rules on their inputs
\* In this specification item holds the zones the locator found in the window,
\* the snapshot build_snapshot derives from them and the proposal of the policy.
\* A zone is a band [low, high] with low < high (sr_levels.py lines 15-17);
\* the locator returns its zones ascending by low.
Zones == {[low |-> b[1], high |-> b[2]] : b \in {b \in Prices \X Prices : b[1] < b[2]}}

ZoneLists(n) ==
    {q \in UNION {[1..k -> Zones] : k \in 0..n} : \A i \in 1..Len(q) - 1 : q[i].low <= q[i + 1].low}

Lows(zones) == [i \in 1..Len(zones) |-> zones[i].low]

\* snapshot.py lines 51-53
resistance_levels(resistance_zones, last_close) ==
    LET above(z) == z.low >= last_close
        levels == SelectSeq(resistance_zones, above)
    IN SubSeq(levels, 1, IF Len(levels) < 3 THEN Len(levels) ELSE 3)

\* snapshot.py lines 55-57: <<>> for None, else the one zone
support_level(support_zones, last_close) ==
    LET below(z) == z.high <= last_close
        levels == SelectSeq(support_zones, below)
    IN IF levels = <<>> THEN <<>> ELSE <<levels[Len(levels)]>>

build_snapshot(candle_index, last_close, support_zones, resistance_zones) ==
    LET support == support_level(support_zones, last_close) IN
    [Snapshot(candle_index, last_close, last_close, last_close) EXCEPT
        !.support_low = IF support = <<>> THEN None ELSE support[1].low,
        !.resistance_levels = Lows(resistance_levels(resistance_zones, last_close))]

\* positions in TRADE that have made their progress, at every stage
LevelStates ==
    {[TokenState EXCEPT !.status = STATE_TRADE, !.position_usd = 500 - 100 * stage,
                        !.probe_entry_price = entry, !.probe_entry_low = 9, !.add_entry_price = 11,
                        !.entry_price = entry, !.entry_index = 0, !.max_favorable_price = 11,
                        !.time_in_trade = 1, !.scale_out_stage = stage, !.progress_hit = TRUE] :
        entry \in {9, 10}, stage \in 0..MaxScaleOuts}

LevelConfigs ==
    {BaseConfig, [BaseConfig EXCEPT !.breakeven_after_progress = FALSE, !.trail_after_progress = FALSE]}

LevelsInit ==
    /\ cfg \in LevelConfigs
    /\ state \in LevelStates
    /\ cursor \in {1, 3}
    /\ pc = "call"
    /\ \E support_zones \in ZoneLists(MaxSupportZones), resistance_zones \in ZoneLists(MaxZones),
          last_close \in Prices :
          item = [support_zones |-> support_zones, resistance_zones |-> resistance_zones,
                  snapshot |-> Snapshot(cursor, last_close, last_close, last_close),
                  proposal |-> NoProposal]

\* build_snapshot, then propose_action (runner.py lines 643-661)
LevelsCall ==
    /\ pc = "call"
    /\ LET snapshot == build_snapshot(cursor, item.snapshot.last_close, item.support_zones,
                                      item.resistance_zones)
           p == propose_action(snapshot, state, cfg)
       IN
          /\ state' = p.state
          /\ item' = [item EXCEPT !.snapshot = snapshot,
                                  !.proposal = [action |-> p.action, reason_codes |-> p.reason_codes]]
    /\ pc' = "done"
    /\ UNCHANGED <<cfg, cursor>>

LevelsNext == LevelsCall

SpecLevels == LevelsInit /\ [][LevelsNext]_vars

\* ------------------------------------------- the TRADE rules on their inputs
\* positions in TRADE with and without an entry index, and snapshots with and
\* without a candle index
TradeStates ==
    {[TokenState EXCEPT !.status = STATE_TRADE, !.position_usd = 500 - 100 * stage,
                        !.probe_entry_price = 10, !.probe_entry_low = 9, !.add_entry_price = 11,
                        !.entry_price = 10, !.entry_index = entry_index, !.max_favorable_price = 11,
                        !.time_in_trade = t, !.scale_out_stage = stage, !.progress_hit = hit] :
        entry_index \in {None, 0}, t \in {1, MaxTimeInTrade}, stage \in 0..MaxScaleOuts, hit \in BOOLEAN}

TradeSnapshots == {[bar EXCEPT !.candle_index = idx] : bar \in TradeBars, idx \in {None, 1, 3}}

TradeConfigs == {[BaseConfig EXCEPT !.time_stop_candles = n] : n \in {0, 2, 3}}

TradeInit ==
    /\ cfg \in TradeConfigs
    /\ state \in TradeStates
    /\ cursor = 0
    /\ pc = "call"
    /\ \E snapshot \in TradeSnapshots : item = [snapshot |-> snapshot, proposal |-> NoProposal]

TradeCall ==
    /\ pc = "call"
    /\ LET p == propose_action(item.snapshot, state, cfg) IN
          /\ state' = p.state
          /\ item' = [item EXCEPT !.proposal = [action |-> p.action, reason_codes |-> p.reason_codes]]
    /\ pc' = "done"
    /\ UNCHANGED <<cfg, cursor>>

TradeNext == TradeCall

SpecTrade == TradeInit /\ [][TradeNext]_vars

\* ------------------------------ run_engine, candidate lists with repeated mints
\* In this specification state is the states dict of run_engine (item.stored
\* are its keys), cursor is the tick, and item holds the candidate list, the
\* tick's proposals list and the positions of the two loops.  A proposals
\* entry refers to the TokenState object of the dict when its token_mint was a
\* key at line 641, and else to an object of its own (entry.own);
\* item.advanced counts the advance_time calls of the tick on the dict's object.
TokenMints == {"A", "B"}

CandidateLists == {<<"A", "B">>, <<"A", "A">>, <<"A", "A", "A">>}

\* the bars of the feed: a strict breakout, a chain override, three plain
\* closes, and a close that touches two resistance levels at once
DupBars ==
    TickBars
    \cup {[Snapshot(None, 10, 10, 10) EXCEPT !.chain_override = TRUE],
          [Snapshot(None, 11, 11, 11) EXCEPT !.resistance_levels = <<11, 11>>]}

DupSnapshots(idx) ==
    {[bar EXCEPT !.candle_index = idx, !.now_ts = idx * CandleSeconds] : bar \in DupBars}

NoDupTick(candidates, stored) ==
    [candidates |-> candidates, n |-> 1, proposals |-> <<>>, k |-> 1, stored |-> stored,
     advanced |-> [m \in TokenMints |-> 0]]

DupInit ==
    /\ cfg \in TickConfigs
    /\ state = [m \in TokenMints |-> TokenState]
    /\ cursor = 0
    /\ pc = "collect"
    /\ \E candidates \in CandidateLists : item = NoDupTick(candidates, {})

\* runner.py lines 605-667: the next candidate: states.get, advance_time,
\* build_snapshot, propose_action, proposals.append
DupCollect ==
    /\ pc = "collect"
    /\ item.n <= Len(item.candidates)
    /\ LET m == item.candidates[item.n]
           known == m \in item.stored
           s1 == advance_time(IF known THEN state[m] ELSE TokenState)
       IN \E snapshot \in DupSnapshots(cursor), score \in TickScores :
            LET p == propose_action(snapshot, s1, cfg) IN
            /\ state' = IF known THEN [state EXCEPT ![m] = p.state] ELSE state
            /\ item' = [item EXCEPT
                          !.n = @ + 1,
                          !.advanced[m] = IF known THEN @ + 1 ELSE @,
                          !.proposals = Append(@, [instrument |-> m,
                                                   own |-> IF known THEN TokenState ELSE p.state,
                                                   known |-> known,
                                                   snapshot |-> ItemSnapshot(snapshot),
                                                   proposal |-> [action |-> p.action, reason_codes |-> p.reason_codes],
                                                   momentum_score |-> score])]
    /\ UNCHANGED <<cfg, cursor, pc>>

\* runner.py lines 620-622 and 637-639: a candidate without candles
DupSkip ==
    /\ pc = "collect"
    /\ item.n <= Len(item.candidates)
    /\ item' = [item EXCEPT !.n = @ + 1]
    /\ UNCHANGED <<cfg, state, cursor, pc>>

\* runner.py line 669
DupRank ==
    /\ pc = "collect"
    /\ item.n > Len(item.candidates)
    /\ item' = [item EXCEPT !.proposals = rank_entry_proposals(@, cfg)]
    /\ pc' = "resolve"
    /\ UNCHANGED <<cfg, state, cursor>>

\* runner.py lines 675-840: the next item of the proposals list:
\* validate_action, the chain-risk overlay, apply_action, states[token_mint] = state
DupResolve ==
    /\ pc = "resolve"
    /\ item.k <= Len(item.proposals)
    /\ LET it == item.proposals[item.k]
           s == IF it.known THEN state[it.instrument] ELSE it.own
       IN \E liquidity_usd \in TickLiquidity, cf \in TickChainFeatures :
            LET validated == _apply_chain_risk(validate_action(it.proposal, liquidity_usd, s, cfg), cf) IN
            /\ state' = [state EXCEPT ![it.instrument] =
                            IF validated.action /= ACTION_HOLD
                            THEN apply_action(s, validated.action, it.snapshot, cfg, validated.reason_codes)
                            ELSE s]
            /\ item' = [item EXCEPT !.k = @ + 1, !.stored = @ \cup {it.instrument}]
    /\ UNCHANGED <<cfg, cursor, pc>>

\* runner.py line 602: the next tick
DupEnd ==
    /\ pc = "resolve"
    /\ item.k > Len(item.proposals)
    /\ cursor < MaxTick
    /\ cursor' = cursor + 1
    /\ item' = NoDupTick(item.candidates, item.stored)
    /\ pc' = "collect"
    /\ UNCHANGED <<cfg, state>>

DupNext == DupCollect \/ DupSkip \/ DupRank \/ DupResolve \/ DupEnd

SpecDup == DupInit /\ [][DupNext]_vars

\* --------------------------------------------- run_engine, the candle cursors
\* In this specification state is the cursors dict (None for a token_mint
\* without an entry), cursor is the tick, cfg holds breakout_lookback, and
\* item holds the candidate list, the position of the loop over it and, per
\* token_mint, the candle_index and the window length last handed to
\* build_snapshot on an earlier tick (prev) and on this tick (index, window).
CursorLookbacks == {2, 5}

FeedLengths == 0..MaxFeedLen

\* runner.py line 597
start_index(lookback) == Max(lookback + 5, 10)

\* runner.py lines 624-634: the cursor of a token_mint for candles_full of the
\* given length
next_cursor(stored, length, lookback) ==
    LET first == IF stored /= None THEN stored
                 ELSE IF length < start_index(lookback)
                      THEN Min(length, Max(2, lookback + 2))
                      ELSE start_index(lookback)
        stepped == IF first < length THEN first + 1 ELSE first
    IN Min(stepped, length)

NoCursorTick(candidates, prev) ==
    [candidates |-> candidates, n |-> 1, prev |-> prev,
     index |-> [m \in TokenMints |-> None], window |-> [m \in TokenMints |-> None]]

CursorInit ==
    /\ cfg \in [breakout_lookback : CursorLookbacks]
    /\ state = [m \in TokenMints |-> None]
    /\ cursor = 0
    /\ pc = "collect"
    /\ \E candidates \in CandidateLists :
         item = NoCursorTick(candidates, [m \in TokenMints |-> None])

\* runner.py lines 605-654: the next candidate of the tick: _get_candles, the
\* cursor, candles_full[:cursor], build_snapshot with candle_index = cursor - 1
CursorVisit ==
    /\ pc = "collect"
    /\ item.n <= Len(item.candidates)
    /\ LET m == item.candidates[item.n] IN
       \E length \in FeedLengths :
         IF length = 0
         THEN /\ state' = state
              /\ item' = [item EXCEPT !.n = @ + 1]
         ELSE LET c == next_cursor(state[m], length, cfg.breakout_lookback) IN
              /\ state' = [state EXCEPT ![m] = c]
              /\ item' = IF c < 5
                         THEN [item EXCEPT !.n = @ + 1]
                         ELSE [item EXCEPT !.n = @ + 1, !.index[m] = c - 1, !.window[m] = c]
    /\ UNCHANGED <<cfg, cursor, pc>>

\* runner.py line 602: the next tick
CursorEnd ==
    /\ pc = "collect"
    /\ item.n > Len(item.candidates)
    /\ cursor < MaxTick
    /\ cursor' = cursor + 1
    /\ item' = NoCursorTick(item.candidates,
                            [m \in TokenMints |-> IF item.index[m] /= None THEN item.index[m] ELSE item.prev[m]])
    /\ UNCHANGED <<cfg, state, pc>>

CursorNext == CursorVisit \/ CursorEnd

SpecCursor == CursorInit /\ [][CursorNext]_vars

\* ------------------------------- simulate_pair, the portfolio and its trades
\* In this specification item holds, next to the fields of the section on
\* simulate_pair, the pnl_usd of the trades recorded so far (trades), the
\* close of the last candle processed (last_close) and, once the series has
\* ended, the total_return_pct in hundredths of a percent that
\* compute_metrics derives from the trades (total_return_pct, None before).
\* metrics.py lines 6-12
RECURSIVE equity_curve(_, _)
equity_curve(starting_capital, trades) ==
    IF trades = <<>> THEN <<starting_capital>>
    ELSE LET curve == equity_curve(starting_capital, SubSeq(trades, 1, Len(trades) - 1))
         IN Append(curve, curve[Len(curve)] + trades[Len(trades)])

\* metrics.py lines 53-56
total_return_pct(starting_capital, trades) ==
    LET curve == equity_curve(starting_capital, trades)
    IN (curve[Len(curve)] * 10000) \div starting_capital - 10000

\* simulate.py lines 325-329: the pnl_usd of a sale of scale_pct percent
backtest_pnl(it, scale_pct, c) ==
    LET sell_qty == (it.position_qty * scale_pct) \div 100
        exec_price == _apply_costs(it.snapshot.last_close, "sell", c)
        proceeds == (sell_qty * exec_price) \div (10000 * QtyScale)
        cost_basis == (it.position_cost_usd * sell_qty) \div it.position_qty
    IN proceeds - cost_basis

\* simulate.py lines 289-353 with the trades.append of lines 303-311 and
\* 334-344 (run_backtest: lines 475-546)
portfolio_resolve(s, it, c) ==
    LET validated == validate_action(it.proposal, backtest_liquidity(c), s, c)
        notional_usd == _action_notional_usd(validated.action, s, c)
        scale_pct == IF validated.action = ACTION_SCALE_OUT_20
                     THEN (IF s.scale_out_stage = 0 THEN c.tp1_scale_out_pct ELSE c.tp2_scale_out_pct)
                     ELSE 100
        buys == validated.action \in {ACTION_PROBE_BUY, ACTION_ADD_BUY}
        r == backtest_resolve(s, it, c)
    IN
    IF validated.action = ACTION_HOLD THEN r
    ELSE IF buys /\ it.cash < notional_usd THEN r
    ELSE IF ~buys /\ it.position_qty <= 0 THEN r
    ELSE [state |-> r.state,
          item |-> [r.item EXCEPT !.trades = Append(@, IF buys THEN 0 ELSE backtest_pnl(it, scale_pct, c))]]

\* simulate.py lines 355-376 (run_backtest: lines 548-573): the position left
\* at the end of the series is sold at the last close
forced_exit(it, c) ==
    IF it.position_qty > 0
    THEN LET exec_price == _apply_costs(it.last_close, "sell", c)
             proceeds == (it.position_qty * exec_price) \div (10000 * QtyScale)
             cost_basis == it.position_cost_usd
         IN [it EXCEPT !.trades = Append(@, proceeds - cost_basis),
                       !.cash = @ + proceeds,
                       !.position_qty = 0,
                       !.position_cost_usd = 0]
    ELSE it

PortfolioInit ==
    /\ cfg \in BacktestConfigs
    /\ state = TokenState
    /\ cursor = 0
    /\ pc = "bt_advance"
    /\ item = [snapshot |-> NoSnapshot, proposal |-> NoProposal, cash |-> cfg.capital_usd,
               position_qty |-> 0, position_cost_usd |-> 0, trades |-> <<>>, last_close |-> None,
               total_return_pct |-> None]

\* simulate.py lines 289-353: the trade of the iteration, if any
PortfolioResolve ==
    /\ pc = "bt_resolve"
    /\ LET r == portfolio_resolve(state, item, cfg) IN
          /\ state' = r.state
          /\ item' = [r.item EXCEPT !.snapshot = NoSnapshot, !.proposal = NoProposal,
                                    !.last_close = item.snapshot.last_close]
    /\ pc' = "bt_advance"
    /\ UNCHANGED <<cfg, cursor>>

\* simulate.py lines 355-379: the series has ended: the forced exit and
\* compute_metrics
PortfolioEnd ==
    /\ pc = "bt_advance"
    /\ cursor >= 1
    /\ LET it == forced_exit(item, cfg) IN
          item' = [it EXCEPT !.total_return_pct = total_return_pct(cfg.capital_usd, it.trades)]
    /\ pc' = "bt_done"
    /\ UNCHANGED <<cfg, state, cursor>>

PortfolioNext == BacktestAdvance \/ BacktestPropose \/ PortfolioResolve \/ PortfolioEnd

SpecPortfolio == PortfolioInit /\ [][PortfolioNext]_vars

\* ======================================================================
\* Properties
\* ======================================================================

PendingCleared(s) ==
    /\ s.pending_breakout_index = None
    /\ s.pending_breakout_level = None
    /\ s.pending_breakout_expires_index = None

\* the ProposeStep transitions: state is the TokenState the policy was called
\* with, item' the snapshot and the proposal it returned
Proposing == pc = "propose" /\ pc' = "resolve"

\* C1: after any sequence of advance_time and apply_action calls, status
\* SCOUT or COOLDOWN implies position_usd = 0.
C1_FlatWhenScoutOrCooldown ==
    state.status \in {STATE_SCOUT, STATE_COOLDOWN} => state.position_usd = 0

\* an exit from a held position that has cooled down to SCOUT again
C1_Witness ==
    /\ state.status = STATE_SCOUT
    /\ state.last_exit_price /= None
    /\ state.position_usd = 0

\* C2: in the pipeline the status changes only along SCOUT->PROBE (PROBE_BUY),
\* PROBE->TRADE (ADD_BUY), PROBE->COOLDOWN and TRADE->COOLDOWN (EXIT_FULL) and
\* COOLDOWN->SCOUT (advance_time); SCALE_OUT_20 never changes it.
C2_Edge ==
    \/ /\ pc = "advance"
       /\ state.status = STATE_COOLDOWN /\ state'.status = STATE_SCOUT
    \/ /\ pc = "resolve" /\ item.proposal.action = ACTION_PROBE_BUY
       /\ state.status = STATE_SCOUT /\ state'.status = STATE_PROBE
    \/ /\ pc = "resolve" /\ item.proposal.action = ACTION_ADD_BUY
       /\ state.status = STATE_PROBE /\ state'.status = STATE_TRADE
    \/ /\ pc = "resolve" /\ item.proposal.action = ACTION_EXIT_FULL
       /\ state.status \in {STATE_PROBE, STATE_TRADE} /\ state'.status = STATE_COOLDOWN

C2_StatusEdges == [][state'.status /= state.status => C2_Edge]_vars

\* a full cycle SCOUT -> PROBE -> TRADE -> COOLDOWN -> SCOUT has been run
C2_Witness ==
    /\ state.status = STATE_TRADE
    /\ state.last_exit_index /= None

\* C3: every instrument that enters COOLDOWN eventually returns to SCOUT while
\* the tick loop keeps running, for every cooldown_candles >= 0.
C3_CooldownReturnsToScout ==
    (state.status = STATE_COOLDOWN) ~> (state.status = STATE_SCOUT)

\* C4: with a recorded exit index e and exit price P and lockout_candles L > 0,
\* can_reenter is false while now_index - e < W unless the close is at least
\* P*(1 + min_breakout_pct) or vol_ok holds, and true once now_index - e >= W,
\* where W = 3*L after a stop-loss exit and W = L otherwise.
C4_Lockout ==
    (/\ pc = "done"
     /\ item.last_exit_index /= None
     /\ item.last_exit_price /= None
     /\ item.now_index /= None
     /\ cfg.lockout_candles > 0)
    => LET W == IF item.last_exit_was_stop THEN 3 * cfg.lockout_candles ELSE cfg.lockout_candles
           price_override == item.current_close * 100 >= item.last_exit_price * (100 + cfg.min_breakout_pct)
       IN item.result = (item.now_index - item.last_exit_index >= W \/ price_override \/ item.vol_ok)

\* a stop-loss exit, past L but inside 3*L bars, no override: still locked
C4_Witness ==
    /\ pc = "done"
    /\ item.last_exit_was_stop
    /\ item.last_exit_index /= None /\ item.last_exit_price /= None /\ item.now_index /= None
    /\ cfg.lockout_candles > 0
    /\ item.now_index - item.last_exit_index >= cfg.lockout_candles
    /\ item.now_index - item.last_exit_index < 3 * cfg.lockout_candles
    /\ ~item.vol_ok
    /\ item.current_close * 100 < item.last_exit_price * (100 + cfg.min_breakout_pct)
    /\ item.result = FALSE

\* C5: in SCOUT with no pending breakout, a strict breakout at index i that the
\* re-entry lockout does not block yields HOLD/BREAKOUT_PENDING and arms
\* pending_breakout_index = i, pending_breakout_level = highest_close and
\* pending_breakout_expires_index = i + 3.
C5_Unblocked(s, snapshot) ==
    can_reenter(snapshot.now_ts, s.last_exit_ts, s.last_exit_index, s.last_exit_price, snapshot.last_close, cfg, vol_unlock(snapshot, cfg), s.last_exit_was_stop, infer_interval_sec, snapshot.candle_index)

C5_StrictBreakoutArms ==
    [][(/\ Proposing
        /\ state.status = STATE_SCOUT
        /\ state.pending_breakout_index = None
        /\ item'.snapshot.breakout_strict
        /\ C5_Unblocked(state, item'.snapshot))
       => (/\ item'.proposal = [action |-> ACTION_HOLD, reason_codes |-> <<"BREAKOUT_PENDING">>]
           /\ state'.pending_breakout_index = item'.snapshot.candle_index
           /\ state'.pending_breakout_level = item'.snapshot.highest_close
           /\ state'.pending_breakout_expires_index = item'.snapshot.candle_index + 3)]_vars

\* a breakout armed after an earlier exit, with a reference high below the close
C5_Witness ==
    /\ pc = "resolve"
    /\ item.proposal.reason_codes = <<"BREAKOUT_PENDING">>
    /\ state.last_exit_index /= None
    /\ state.pending_breakout_level < item.snapshot.last_close

\* C6: while a breakout is pending with level H and the candle index is at most
\* pending_breakout_expires_index, the policy returns PROBE_BUY/BREAKOUT_CONFIRM
\* and clears the pending fields iff close > H, close >= H*(1 + confirm_min_
\* close_above_pct) and low >= H*(1 - confirm_max_retrace_pct); otherwise it
\* returns HOLD/BREAKOUT_WAIT and leaves the pending fields unchanged.
C6_Confirms(s, snapshot) ==
    /\ snapshot.last_close > s.pending_breakout_level
    /\ snapshot.last_close * 100 >= s.pending_breakout_level * (100 + cfg.confirm_min_close_above_pct)
    /\ snapshot.last_low * 100 >= s.pending_breakout_level * (100 - cfg.confirm_max_retrace_pct)

C6_ConfirmOrWait ==
    [][(/\ Proposing
        /\ state.pending_breakout_index /= None
        /\ item'.snapshot.candle_index <= state.pending_breakout_expires_index)
       => IF C6_Confirms(state, item'.snapshot)
          THEN /\ item'.proposal = [action |-> ACTION_PROBE_BUY, reason_codes |-> <<"BREAKOUT_CONFIRM">>]
               /\ PendingCleared(state')
          ELSE /\ item'.proposal = [action |-> ACTION_HOLD, reason_codes |-> <<"BREAKOUT_WAIT">>]
               /\ state'.pending_breakout_index = state.pending_breakout_index
               /\ state'.pending_breakout_level = state.pending_breakout_level
               /\ state'.pending_breakout_expires_index = state.pending_breakout_expires_index]_vars

\* a confirmation on a bar whose low lies below its close
C6_Witness ==
    /\ pc = "resolve"
    /\ item.proposal.reason_codes = <<"BREAKOUT_CONFIRM">>
    /\ item.snapshot.last_low < item.snapshot.last_close
    /\ PendingCleared(state)

\* C7: a pending breakout armed at index i expires on the first tick whose
\* index exceeds i + 3, with HOLD/BREAKOUT_EXPIRED and all three fields
\* cleared, whatever that bar looks like; no BREAKOUT_CONFIRM is produced at
\* an index greater than i + 3.
C7_Expiry ==
    [][(Proposing /\ state.pending_breakout_index /= None)
       => /\ item'.snapshot.candle_index > state.pending_breakout_index + 3
             => /\ item'.proposal = [action |-> ACTION_HOLD, reason_codes |-> <<"BREAKOUT_EXPIRED">>]
                /\ PendingCleared(state')
          /\ item'.proposal.reason_codes = <<"BREAKOUT_CONFIRM">>
             => item'.snapshot.candle_index <= state.pending_breakout_index + 3]_vars

\* an expiry on a bar at the top of the price range
C7_Witness ==
    /\ pc = "resolve"
    /\ item.proposal.reason_codes = <<"BREAKOUT_EXPIRED">>
    /\ item.snapshot.last_close = 11

\* C8: BREAKOUT_CONFIRM is proposed only at a candle index strictly greater
\* than pending_breakout_index, never on the bar that armed the breakout.
C8_ConfirmOnLaterBar ==
    [][(Proposing /\ item'.proposal.reason_codes = <<"BREAKOUT_CONFIRM">>)
       => item'.snapshot.candle_index > state.pending_breakout_index]_vars

\* C9: status PROBE or TRADE implies position_usd > 0.
C9_HoldingHasPosition ==
    state.status \in {STATE_PROBE, STATE_TRADE} => state.position_usd > 0

\* C10: the three pending-breakout fields are all set or all empty.
C10_PendingAllOrNone ==
    \/ PendingCleared(state)
    \/ /\ state.pending_breakout_index /= None
       /\ state.pending_breakout_level /= None
       /\ state.pending_breakout_expires_index /= None

\* a breakout armed after an earlier exit: all three fields are set
C10_Witness ==
    /\ state.pending_breakout_index /= None
    /\ state.pending_breakout_level /= None
    /\ state.pending_breakout_expires_index /= None
    /\ state.last_exit_index /= None

\* C11: when ranking applies (top_n_per_tick = N > 0 and k PROBE_BUY proposals
\* with k >= max(1, min_candidates_before_rank)), exactly min(N, k) proposals
\* stay PROBE_BUY, no demoted one has a strictly higher score than a kept one,
\* and every demoted one is HOLD with RANKED_OUT after its own reason codes.
RankApplies ==
    /\ cfg.top_n_per_tick > 0
    /\ Cardinality(Entries(item.proposals)) >= Max(1, cfg.min_candidates_before_rank)

C11_TopNKept ==
    (pc = "done" /\ RankApplies)
    => LET k == Cardinality(Entries(item.proposals))
           kept == Entries(item.ranked)
           demoted == Entries(item.proposals) \ kept
       IN /\ Cardinality(kept) = Min(cfg.top_n_per_tick, k)
          /\ kept \subseteq Entries(item.proposals)
          /\ \A i \in demoted, j \in kept :
                item.proposals[i].momentum_score <= item.proposals[j].momentum_score
          /\ \A i \in demoted :
                item.ranked[i].proposal =
                    [action |-> ACTION_HOLD,
                     reason_codes |-> item.proposals[i].proposal.reason_codes \o <<"RANKED_OUT">>]

\* three entries with different scores, the best one last, top 1 kept
C11_Witness ==
    /\ pc = "done"
    /\ cfg.top_n_per_tick = 1
    /\ Len(item.proposals) = 3
    /\ Entries(item.proposals) = {1, 2, 3}
    /\ item.proposals[1].momentum_score < item.proposals[2].momentum_score
    /\ item.proposals[2].momentum_score < item.proposals[3].momentum_score
    /\ Entries(item.ranked) = {3}

\* C12: with top_n_per_tick = N > 0 at most N PROBE_BUY proposals survive the
\* ranker, for every value of min_candidates_before_rank.
C12_AtMostTopN ==
    (pc = "done" /\ cfg.top_n_per_tick > 0)
    => Cardinality(Entries(item.ranked)) <= cfg.top_n_per_tick

\* C12 as amended: with top_n_per_tick = N > 0 at most N PROBE_BUY proposals
\* survive when at least max(1, min_candidates_before_rank) were proposed;
\* with fewer, the ranker is a no-op and all of them survive.
C12_AtMostTopNWhenRanked ==
    (pc = "done" /\ cfg.top_n_per_tick > 0)
    => IF Cardinality(Entries(item.proposals)) >= Max(1, cfg.min_candidates_before_rank)
       THEN Cardinality(Entries(item.ranked)) <= cfg.top_n_per_tick
       ELSE Entries(item.ranked) = Entries(item.proposals)

\* two tied entries, top 1, ranking applies: one survives
C12_Witness ==
    /\ pc = "done"
    /\ cfg.top_n_per_tick = 1
    /\ cfg.min_candidates_before_rank = 2
    /\ Entries(item.proposals) = {1, 3}
    /\ item.proposals[1].momentum_score = item.proposals[3].momentum_score
    /\ Cardinality(Entries(item.ranked)) = 1

\* C13: the ranker leaves every proposal that is not PROBE_BUY as it is,
\* leaves every TokenState and score as it is, and changes nothing at all when
\* top_n_per_tick <= 0 or fewer than min_candidates_before_rank PROBE_BUY
\* proposals exist.
C13_RankerFrame ==
    pc = "done"
    => /\ Len(item.ranked) = Len(item.proposals)
       /\ \A i \in 1..Len(item.proposals) :
             /\ item.ranked[i].state = item.proposals[i].state
             /\ item.ranked[i].momentum_score = item.proposals[i].momentum_score
             /\ item.proposals[i].proposal.action /= ACTION_PROBE_BUY
                => item.ranked[i] = item.proposals[i]
       /\ (\/ cfg.top_n_per_tick <= 0
           \/ Cardinality(Entries(item.proposals)) < cfg.min_candidates_before_rank)
          => item.ranked = item.proposals

\* two entries and an exit, top 1 but three candidates required: nothing moves
C13_Witness ==
    /\ pc = "done"
    /\ cfg.top_n_per_tick = 1
    /\ cfg.min_candidates_before_rank = 3
    /\ Len(item.proposals) = 3
    /\ Cardinality(Entries(item.proposals)) = 2
    /\ \E i \in 1..3 : item.proposals[i].proposal.action = ACTION_EXIT_FULL
    /\ item.ranked = item.proposals

\* C14: in every tick propose_action has run for every processed instrument
\* before the ranker starts, and the ranker has finished before validate_action
\* or apply_action runs for any instrument; so every proposal of a tick is
\* computed from TokenStates that no apply_action of the tick has touched.
C14_Proposes == pc = "collect" /\ Len(item'.proposals) = Len(item.proposals) + 1

C14_Ranks == ~item.ranked /\ item'.ranked

C14_Resolves == pc = "resolve" /\ pc' = "resolve" /\ item'.k = item.k + 1

C14_TickOrder ==
    [][/\ C14_Proposes => (~item.ranked /\ item.applied = {} /\ item.k = 1)
       /\ C14_Ranks => (/\ item.visited = DOMAIN state
                        /\ item.applied = {} /\ item.k = 1
                        /\ \A n \in 1..Len(item.proposals) :
                              item.proposals[n].instrument \in item.visited)
       /\ C14_Resolves => (item.ranked /\ item.visited = DOMAIN state)]_vars

\* both candidates proposed an entry, the ranker kept one, and it was applied
C14_Witness ==
    /\ pc = "resolve"
    /\ Len(item.proposals) = 2
    /\ item.k = 3
    /\ Contains(item.proposals[1].proposal.reason_codes, "RANKED_OUT")
    /\ item.applied = {"B"}
    /\ state["B"].status = STATE_PROBE

\* C15: validate_action returns a HOLD proposal as it is; for any other
\* proposal it returns the proposal as it is when no rejection condition
\* holds, and otherwise HOLD with exactly the REJECT_ codes of the conditions
\* that hold, in the order COOLDOWN, LOW_LIQUIDITY, NO_POSITION,
\* SLIPPAGE_TOO_HIGH, the proposal's own reason codes dropped.
C15_Rejects(code) ==
    \/ code = "REJECT_COOLDOWN" /\ state.status = STATE_COOLDOWN
    \/ code = "REJECT_LOW_LIQUIDITY" /\ item.liquidity_usd < cfg.min_liquidity_usd
    \/ /\ code = "REJECT_NO_POSITION"
       /\ item.proposal.action \in {ACTION_SCALE_OUT_20, ACTION_EXIT_FULL}
       /\ state.position_usd <= 0
    \/ /\ code = "REJECT_SLIPPAGE_TOO_HIGH"
       /\ estimate_slippage_bps(_action_notional_usd(item.proposal.action, state, cfg), item.liquidity_usd)
            > cfg.max_slippage_bps

C15_ValidateOutcome ==
    pc = "done"
    => LET codes == SelectSeq(<<"REJECT_COOLDOWN", "REJECT_LOW_LIQUIDITY", "REJECT_NO_POSITION",
                               "REJECT_SLIPPAGE_TOO_HIGH">>, C15_Rejects)
       IN /\ item.validated.action \in {item.proposal.action, ACTION_HOLD}
          /\ IF item.proposal.action = ACTION_HOLD \/ codes = <<>>
             THEN item.validated = item.proposal
             ELSE item.validated = [action |-> ACTION_HOLD, reason_codes |-> codes]

\* an exit proposed for an emptied position on an illiquid pair: three codes
C15_Witness ==
    /\ pc = "done"
    /\ item.proposal.action = ACTION_EXIT_FULL
    /\ item.validated = [action |-> ACTION_HOLD,
                         reason_codes |-> <<"REJECT_LOW_LIQUIDITY", "REJECT_NO_POSITION",
                                            "REJECT_SLIPPAGE_TOO_HIGH">>]

\* C16: the chain-risk overlay never changes an EXIT_FULL or SCALE_OUT_20
\* proposal; it turns a PROBE_BUY or ADD_BUY into HOLD whenever the chain
\* features show net outflow, liquidity removal, or a tx velocity >= 8/min
\* with tx_count < 40, appending NET_OUTFLOW / LIQUIDITY_RISK /
\* DEAD_AFTER_SPIKE to the existing reasons; with empty chain features every
\* proposal passes unchanged.
C16_NetOutflow == item.chain_features.chain_net_native < 0 \/ item.chain_features.chain_net_token < 0

C16_LiquidityRemoval ==
    \/ item.chain_features.chain_liquidity_remove_events > 0
    \/ item.chain_features.chain_liquidity_events < 0

C16_DeadAfterSpike ==
    item.chain_features.chain_tx_velocity_per_min >= 8 /\ item.chain_features.chain_tx_count < 40

C16_ChainRiskOverlay ==
    pc = "done"
    => /\ item.proposal.action \in {ACTION_EXIT_FULL, ACTION_SCALE_OUT_20}
          => item.validated = item.proposal
       /\ ~item.chain_features.present => item.validated = item.proposal
       /\ (/\ item.proposal.action \in {ACTION_PROBE_BUY, ACTION_ADD_BUY}
           /\ item.chain_features.present
           /\ C16_NetOutflow \/ C16_LiquidityRemoval \/ C16_DeadAfterSpike)
          => /\ item.validated.action = ACTION_HOLD
             /\ item.validated.reason_codes =
                   item.proposal.reason_codes
                   \o (IF C16_NetOutflow THEN <<"NET_OUTFLOW">> ELSE <<>>)
                   \o (IF C16_LiquidityRemoval THEN <<"LIQUIDITY_RISK">> ELSE <<>>)
                   \o (IF C16_DeadAfterSpike THEN <<"DEAD_AFTER_SPIKE">> ELSE <<>>)

\* an add into a token whose only signal is a spike that died
C16_Witness ==
    /\ pc = "done"
    /\ item.proposal.action = ACTION_ADD_BUY
    /\ item.validated = [action |-> ACTION_HOLD, reason_codes |-> <<"ADD_TRIGGER", "DEAD_AFTER_SPIKE">>]

\* C17: in run_engine an instrument whose chain features show net outflow or
\* liquidity removal on every tick never has PROBE_BUY or ADD_BUY as the final
\* decision of a tick: it stays in SCOUT with no position, whatever its
\* candles are.
C17_NeverEnters ==
    /\ state.status = STATE_SCOUT
    /\ state.position_usd = 0
    /\ pc = "resolve"
       => \A ranked_out \in BOOLEAN, liquidity_usd \in Liquidity, cf \in RiskyChainFeatures :
             decide(item.proposal, ranked_out, liquidity_usd, cf, state, cfg).action
                \notin {ACTION_PROBE_BUY, ACTION_ADD_BUY}

\* a second breakout confirmed by the policy after the first was held back
C17_Witness ==
    /\ pc = "resolve"
    /\ item.proposal = [action |-> ACTION_PROBE_BUY, reason_codes |-> <<"BREAKOUT_CONFIRM">>]
    /\ item.snapshot.candle_index >= 3
    /\ state.status = STATE_SCOUT

\* C18: apply_action runs for an instrument in a tick only with the action
\* left after ranking, validation and the chain-risk overlay, and only when
\* that action is not HOLD; a proposal demoted to HOLD by one of these stages
\* changes neither status, position_usd, the entry fields, scale_out_stage,
\* cooldown_left nor the last_exit_ fields.
C18_Frame(s) ==
    <<s.status, s.position_usd, s.probe_entry_price, s.probe_entry_low, s.add_entry_price,
      s.entry_index, s.entry_price, s.scale_out_stage, s.cooldown_left, s.time_in_trade,
      s.last_exit_ts, s.last_exit_price, s.last_exit_index, s.last_exit_was_stop>>

C18_OnlySurvivorsApplied ==
    pc = "resolve"
    => \A ranked_out \in BOOLEAN, liquidity_usd \in Liquidity, cf \in ChainFeatures :
          LET validated == decide(item.proposal, ranked_out, liquidity_usd, cf, state, cfg)
              after == resolve(state, item, ranked_out, liquidity_usd, cf, cfg)
          IN /\ validated.action \in {item.proposal.action, ACTION_HOLD}
             /\ validated.action = ACTION_HOLD => C18_Frame(after) = C18_Frame(state)
             /\ validated.action /= ACTION_HOLD
                => after = apply_action(state, validated.action, item.snapshot, cfg, validated.reason_codes)

\* an exit from TRADE that the validator rejects on a pair without liquidity
C18_Witness ==
    /\ pc = "resolve"
    /\ state.status = STATE_TRADE
    /\ item.proposal.action = ACTION_EXIT_FULL
    /\ decide(item.proposal, FALSE, 0, NoChainFeatures, state, cfg).action = ACTION_HOLD
    /\ resolve(state, item, FALSE, 0, NoChainFeatures, cfg) = state

\* C19: in PROBE or TRADE, whenever last_close < probe_entry_low * (1 -
\* stop_buffer_pct), propose_action returns EXIT_FULL with reason STRUCT_STOP,
\* whatever the progress state is.
C19_StructStopAlways ==
    [][(/\ Proposing
        /\ state.status \in {STATE_PROBE, STATE_TRADE}
        /\ state.probe_entry_low /= None
        /\ item'.snapshot.last_close * 100 < state.probe_entry_low * (100 - cfg.stop_buffer_pct))
       => item'.proposal = [action |-> ACTION_EXIT_FULL, reason_codes |-> <<"STRUCT_STOP">>]]_vars

\* C20: EXIT_FULL applied to any state sets status = COOLDOWN, position_usd =
\* 0 and cooldown_left = cooldown_candles, clears the probe, add and entry
\* prices, entry_index, time_in_trade, scale_out_stage, the progress fields
\* and the pending-breakout fields, records last_exit_ts, last_exit_price and
\* last_exit_index from the snapshot, and sets last_exit_was_stop iff
\* STRUCT_STOP is among the exit reason codes.
C20_ExitFullResets ==
    pc = "done"
    => state = [status |-> STATE_COOLDOWN,
                position_usd |-> 0,
                cooldown_left |-> cfg.cooldown_candles,
                probe_entry_price |-> None,
                probe_entry_low |-> None,
                add_entry_price |-> None,
                entry_price |-> None,
                entry_index |-> None,
                time_in_trade |-> 0,
                scale_out_stage |-> 0,
                max_favorable_price |-> None,
                progress_hit |-> FALSE,
                progress_deadline_index |-> None,
                pending_breakout_index |-> None,
                pending_breakout_level |-> None,
                pending_breakout_expires_index |-> None,
                last_exit_ts |-> item.snapshot.now_ts,
                last_exit_price |-> item.snapshot.last_close,
                last_exit_index |-> item.snapshot.candle_index,
                last_exit_was_stop |-> (\E n \in 1..Len(item.exit_reason_codes) :
                                           item.exit_reason_codes[n] = "STRUCT_STOP")]

\* an exit for a reason that is no structural stop, recorded at candle 1
C20_Witness ==
    /\ pc = "done"
    /\ item.exit_reason_codes = <<"TRAIL_STOP">>
    /\ state.status = STATE_COOLDOWN
    /\ state.last_exit_index = 1
    /\ ~state.last_exit_was_stop

\* C21: in run_engine, when fetching pair stats or candles for one instrument
\* fails in a tick, that instrument is skipped, the loop goes on with the
\* other instruments of the tick, and the run goes on with the next tick: a
\* visit of a candidate that appends no proposal leaves the tick loop in its
\* collecting stage with that candidate passed over.
C21_NoProposalVisit ==
    /\ pc = "collect"
    /\ ~collected(item.visited)
    /\ item'.proposals = item.proposals

C21_FetchFailureIsolated ==
    [][C21_NoProposalVisit
       => /\ pc' = "collect"
          /\ item'.visited = item.visited \cup {Candidates[Cardinality(item.visited) + 1]}
          /\ state' = state]_vars

\* C22: propose_action writes no TokenState field other than
\* pending_breakout_index, pending_breakout_level and
\* pending_breakout_expires_index, and outside the policy a TokenState is
\* written only by advance_time and apply_action.
C22_PolicyCall ==
    \/ pc = "propose" /\ pc' = "resolve"
    \/ pc = "bt_propose" /\ pc' = "bt_resolve"

C22_Applied(s, t, snapshot) ==
    \E action \in Actions, stop \in BOOLEAN :
        t = apply_action(s, action, snapshot, cfg, IF stop THEN <<"STRUCT_STOP">> ELSE <<>>)

C23_CooldownHolds ==
    [][state.status = STATE_COOLDOWN
       => /\ Proposing => /\ item'.proposal = [action |-> ACTION_HOLD, reason_codes |-> <<"COOLDOWN">>]
                          /\ state' = state
          /\ pc = "resolve" => state' = state]_vars

\* a strict breakout bar seen while one candle of the cooldown is left
C23_Witness ==
    /\ pc = "resolve"
    /\ state.status = STATE_COOLDOWN
    /\ state.cooldown_left = 1
    /\ item.snapshot.breakout_strict
    /\ item.proposal = [action |-> ACTION_HOLD, reason_codes |-> <<"COOLDOWN">>]

\* C24: in SCOUT with no pending breakout, breakout_strict false and
\* chain_override true, propose_action returns on that same tick PROBE_BUY
\* with the missing-condition codes followed by PROVISIONAL_CHAIN_OVERRIDE,
\* arming no pending breakout, when can_reenter with vol_ok = false lets the
\* snapshot through, and HOLD/REENTRY_LOCKOUT when it does not.
C24_ChainOverrideEntry ==
    [][(/\ Proposing
        /\ state.status = STATE_SCOUT
        /\ state.pending_breakout_index = None
        /\ ~item'.snapshot.breakout_strict
        /\ item'.snapshot.chain_override)
       => IF can_reenter(item'.snapshot.now_ts, state.last_exit_ts, state.last_exit_index,
                         state.last_exit_price, item'.snapshot.last_close, cfg, FALSE,
                         state.last_exit_was_stop, CandleSeconds, item'.snapshot.candle_index)
          THEN /\ item'.proposal.action = ACTION_PROBE_BUY
               /\ item'.proposal.reason_codes =
                     (IF item'.snapshot.range_compressed THEN <<>> ELSE <<"NO_RANGE_COMPRESSION">>)
                     \o (IF item'.snapshot.price_expanded THEN <<>> ELSE <<"NO_PRICE_EXPANSION">>)
                     \o <<"PROVISIONAL_CHAIN_OVERRIDE">>
               /\ PendingCleared(state')
          ELSE item'.proposal = [action |-> ACTION_HOLD, reason_codes |-> <<"REENTRY_LOCKOUT">>]]_vars

\* a chain override inside the lockout window of an earlier exit, let through
\* by a close far enough above the exit price
C24_Witness ==
    /\ pc = "resolve"
    /\ state.status = STATE_SCOUT
    /\ state.last_exit_index /= None
    /\ cfg.lockout_candles > 0
    /\ item.snapshot.candle_index - state.last_exit_index < cfg.lockout_candles
    /\ item.proposal = [action |-> ACTION_PROBE_BUY,
                        reason_codes |-> <<"NO_PRICE_EXPANSION", "PROVISIONAL_CHAIN_OVERRIDE">>]

\* C25: in SCOUT, whenever the snapshot's breakout_strict flag is true, the
\* reason codes returned by propose_action contain none of
\* NO_RANGE_COMPRESSION, NO_PRICE_EXPANSION and PROVISIONAL_CHAIN_OVERRIDE,
\* for every combination of the range_compressed, price_expanded and
\* chain_override flags and every pending and lockout state.
C25_StrictExcludesMissingReasons ==
    (pc = "done" /\ item.snapshot.breakout_strict)
    => \A n \in 1..Len(item.proposal.reason_codes) :
          item.proposal.reason_codes[n]
             \notin {"NO_RANGE_COMPRESSION", "NO_PRICE_EXPANSION", "PROVISIONAL_CHAIN_OVERRIDE"}

\* a strict flag with both conditions reported missing and a chain override,
\* after a stop-loss exit that the lockout no longer blocks: the breakout arms
C25_Witness ==
    /\ pc = "done"
    /\ item.snapshot.breakout_strict
    /\ ~item.snapshot.range_compressed
    /\ ~item.snapshot.price_expanded
    /\ item.snapshot.chain_override
    /\ state.last_exit_index /= None
    /\ item.proposal = [action |-> ACTION_HOLD, reason_codes |-> <<"BREAKOUT_PENDING">>]

\* C26: for every candle window and lookback the total of
\* _momentum_score_detail equals momentum_score on the same inputs, and both
\* are 0 for a window of fewer than lookback + 1 candles and for a
\* non-positive reference close.
C26_MomentumScoresAgree ==
    pc = "done"
    => /\ item.detail_total = item.momentum_score
       /\ Len(item.candles) < item.lookback + 1 => item.detail_total = 0

\* C27: request() against an upstream that always answers 429 performs
\* exactly max_retries + 1 attempts and then raises UpstreamRateLimited;
\* against one that always answers 5xx it performs max_retries + 1 attempts
\* and raises UpstreamBadResponse; a 4xx other than 429 raises
\* UpstreamBadResponse after a single attempt; a successful response after
\* k <= max_retries failed attempts returns the payload.
C27_RetryOutcome ==
    pc = "finished"
    => /\ item.upstream = "429"
          => item.sent = item.max_retries + 1 /\ item.result = "UpstreamRateLimited"
       /\ item.upstream = "5xx"
          => item.sent = item.max_retries + 1 /\ item.result = "UpstreamBadResponse"
       /\ item.upstream = "4xx"
          => item.sent = 1 /\ item.result = "UpstreamBadResponse"
       /\ item.last_response = "4xx" => item.result = "UpstreamBadResponse"
       /\ item.last_response = "ok"
          => item.sent <= item.max_retries + 1 /\ item.result = "payload"

\* C27 as amended: the same outcomes for every request made while the circuit
\* breaker is not open; a request made while it is open raises
\* CircuitBreakerOpen without any attempt.
C27_RetryOutcomeWhenAdmitted ==
    pc = "finished"
    => IF item.admitted
       THEN /\ item.upstream = "429"
               => item.sent = item.max_retries + 1 /\ item.result = "UpstreamRateLimited"
            /\ item.upstream = "5xx"
               => item.sent = item.max_retries + 1 /\ item.result = "UpstreamBadResponse"
            /\ item.upstream = "4xx"
               => item.sent = 1 /\ item.result = "UpstreamBadResponse"
            /\ item.last_response = "4xx" => item.result = "UpstreamBadResponse"
            /\ item.last_response = "ok"
               => item.sent <= item.max_retries + 1 /\ item.result = "payload"
       ELSE item.sent = 0 /\ item.result = "CircuitBreakerOpen"

\* the second request against an upstream that only answers 429: the breaker
\* opens under way, all three attempts are made
C27_Witness ==
    /\ pc = "finished"
    /\ item.upstream = "429"
    /\ item.max_retries = 2
    /\ cursor = 2
    /\ item.open
    /\ item.sent = 3
    /\ item.result = "UpstreamRateLimited"

Range(seq) == {seq[i] : i \in 1..Len(seq)}

\* how far a close is from a zone: 0 inside it
ZoneDistance(z, close) ==
    IF close < z.low THEN z.low - close ELSE IF close > z.high THEN close - z.high ELSE 0

NearestZones(zones, close) ==
    {z \in Range(zones) : \A y \in Range(zones) : ZoneDistance(z, close) <= ZoneDistance(y, close)}

EarlierExitReasons == {"PROGRESS_STOP", "TRAIL_STOP", "STRUCT_STOP", "TIME_STOP"}

\* C28: in TRADE with snapshots built by build_snapshot, when no stop, time
\* stop or support break fires and the close touches the nearest resistance
\* zone (close >= its low, a close inside or above the zone included), the
\* policy returns SCALE_OUT_20/R1_TOUCH at stage 0, SCALE_OUT_20/R2_TOUCH at
\* stage 1 for the second level, EXIT_FULL/R3_TOUCH at stage >= 2 for the
\* third level; otherwise it returns HOLD/HOLD_TRADE.
C28_ResistanceTouch ==
    (/\ pc = "done"
     /\ item.proposal.reason_codes[1] \notin EarlierExitReasons \cup {"SUPPORT_BREAK"})
    => LET close == item.snapshot.last_close
           levels == item.snapshot.resistance_levels
           nearest == NearestZones(item.resistance_zones, close)
           expected ==
               IF state.scale_out_stage = 0 /\ nearest /= {} /\ \A z \in nearest : close >= z.low
               THEN [action |-> ACTION_SCALE_OUT_20, reason_codes |-> <<"R1_TOUCH">>]
               ELSE IF state.scale_out_stage = 1 /\ Len(levels) >= 2 /\ close >= levels[2]
               THEN [action |-> ACTION_SCALE_OUT_20, reason_codes |-> <<"R2_TOUCH">>]
               ELSE IF state.scale_out_stage >= 2 /\ Len(levels) >= 3 /\ close >= levels[3]
               THEN [action |-> ACTION_EXIT_FULL, reason_codes |-> <<"R3_TOUCH">>]
               ELSE [action |-> ACTION_HOLD, reason_codes |-> <<"HOLD_TRADE">>]
       IN item.proposal = expected

\* C29: in TRADE with snapshots built by build_snapshot, when the close falls
\* below the low of the support zone and no earlier stop or time stop fires,
\* the policy returns EXIT_FULL/SUPPORT_BREAK.
C29_SupportBreak ==
    (/\ pc = "done"
     /\ item.proposal.reason_codes[1] \notin EarlierExitReasons
     /\ item.support_zones /= <<>>
     /\ \A z \in NearestZones(item.support_zones, item.snapshot.last_close) :
           item.snapshot.last_close < z.low)
    => item.proposal = [action |-> ACTION_EXIT_FULL, reason_codes |-> <<"SUPPORT_BREAK">>]

\* the time in the position has reached time_stop_candles: by the candle
\* indexes when both are known, else by the tick count
C30_TimeIsUp ==
    /\ cfg.time_stop_candles > 0
    /\ IF item.snapshot.candle_index /= None /\ state.entry_index /= None
       THEN item.snapshot.candle_index - state.entry_index >= cfg.time_stop_candles
       ELSE state.time_in_trade >= cfg.time_stop_candles

\* C30: in TRADE with time_stop_candles = T > 0, whenever candle_index -
\* entry_index >= T (or, with an index missing, time_in_trade >= T) the policy
\* returns EXIT_FULL, with reason TIME_STOP unless an earlier stop applies,
\* and never HOLD, SCALE_OUT_20 or ADD_BUY.
C30_TimeStopExits ==
    (pc = "done" /\ C30_TimeIsUp)
    => /\ item.proposal.action = ACTION_EXIT_FULL
       /\ item.proposal.reason_codes \in {<<"TIME_STOP">>, <<"PROGRESS_STOP">>, <<"TRAIL_STOP">>,
                                          <<"STRUCT_STOP">>}

\* the candle indexes say the time is up while the tick count does not
C30_Witness ==
    /\ pc = "done"
    /\ item.snapshot.candle_index = 3
    /\ state.entry_index = 0
    /\ state.time_in_trade = 1
    /\ cfg.time_stop_candles = 3
    /\ item.proposal = [action |-> ACTION_EXIT_FULL, reason_codes |-> <<"TIME_STOP">>]

\* C31: in every tick advance_time is applied exactly once to the TokenState
\* of each processed instrument, keyed by token_mint, also for candidate lists
\* that name a token_mint more than once.
C31_AdvancedOncePerTick ==
    \A m \in TokenMints : item.advanced[m] <= 1

\* C32: after EXIT_FULL is applied with cooldown_candles = N >= 1 the
\* countdown starts at N; every advance_time call in COOLDOWN takes exactly
\* one off cooldown_left, which never becomes negative, and the status
\* becomes SCOUT exactly at the call that reaches 0 (the N-th); nothing else
\* touches the countdown.
C32_CooldownCountdown ==
    [][cfg.cooldown_candles >= 1
       => /\ (state.status /= STATE_COOLDOWN /\ state'.status = STATE_COOLDOWN)
             => state'.cooldown_left = cfg.cooldown_candles
          /\ (state.status = STATE_COOLDOWN /\ pc = "advance")
             => /\ state'.cooldown_left = state.cooldown_left - 1
                /\ state'.cooldown_left >= 0
                /\ state'.status = IF state.cooldown_left = 1 THEN STATE_SCOUT ELSE STATE_COOLDOWN
          /\ (state.status = STATE_COOLDOWN /\ pc /= "advance")
             => /\ state'.status = STATE_COOLDOWN
                /\ state'.cooldown_left = state.cooldown_left]_vars

\* the second advance_time call after an exit with cooldown_candles = 2 has
\* put the instrument back into SCOUT
C32_Witness ==
    /\ pc = "propose"
    /\ cfg.cooldown_candles = 2
    /\ state.status = STATE_SCOUT
    /\ state.cooldown_left = 0
    /\ state.last_exit_index /= None
    /\ cursor = state.last_exit_index + 2

\* C33: for an instrument with a recorded last exit, propose_action returns
\* PROBE_BUY only on a tick at which can_reenter is true for the tick's
\* index, close and volume; this holds for a BREAKOUT_CONFIRM entry as well.
C33_EntriesOutsideLockout ==
    [][(/\ Proposing
        /\ state.last_exit_price /= None
        /\ item'.proposal.action = ACTION_PROBE_BUY)
       => can_reenter(item'.snapshot.now_ts, state.last_exit_ts, state.last_exit_index,
                      state.last_exit_price, item'.snapshot.last_close, cfg,
                      vol_unlock(item'.snapshot, cfg), state.last_exit_was_stop, CandleSeconds,
                      item'.snapshot.candle_index)]_vars

\* C34: in every reachable state of the pipeline a set pending breakout
\* implies status SCOUT and pending_breakout_expires_index =
\* pending_breakout_index + 3; an active pending breakout is never re-armed
\* or extended, and none survives a PROBE_BUY, ADD_BUY or EXIT_FULL.
C34_PendingBreakoutShape ==
    [][/\ state'.pending_breakout_index /= None
          => /\ state'.status = STATE_SCOUT
             /\ state'.pending_breakout_expires_index = state'.pending_breakout_index + 3
       /\ (state.pending_breakout_index /= None /\ state'.pending_breakout_index /= None)
          => /\ state'.pending_breakout_index = state.pending_breakout_index
             /\ state'.pending_breakout_level = state.pending_breakout_level
             /\ state'.pending_breakout_expires_index = state.pending_breakout_expires_index
       /\ state'.status /= state.status => PendingCleared(state')]_vars

\* a later strict breakout meets a pending breakout that is still active and
\* leaves it as it was
C34_Witness ==
    /\ pc = "resolve"
    /\ state.pending_breakout_index /= None
    /\ cursor > state.pending_breakout_index
    /\ item.snapshot.breakout_strict
    /\ item.proposal = [action |-> ACTION_HOLD, reason_codes |-> <<"BREAKOUT_WAIT">>]

\* C35: in every reachable state of the pipeline scale_out_stage is 0, 1 or
\* 2; the stage grows only by a SCALE_OUT_20 applied in TRADE, by exactly 1
\* and without increasing position_usd, and it falls only to 0, together
\* with the change of status made by PROBE_BUY or EXIT_FULL.
C35_ScaleOutStages ==
    [][\A m \in TokenMints :
         /\ state'[m].scale_out_stage \in 0..2
         /\ state'[m].scale_out_stage > state[m].scale_out_stage
            => /\ state'[m].scale_out_stage = state[m].scale_out_stage + 1
               /\ state[m].status = STATE_TRADE
               /\ state'[m].status = STATE_TRADE
               /\ state'[m].position_usd <= state[m].position_usd
         /\ state'[m].scale_out_stage < state[m].scale_out_stage
            => state'[m].scale_out_stage = 0 /\ state'[m].status /= state[m].status
         /\ (state'[m].status /= state[m].status /\ state'[m].status \in {STATE_PROBE, STATE_COOLDOWN})
            => state'[m].scale_out_stage = 0]_vars

\* C36: in run_engine at most one ADD_BUY is applied between a PROBE_BUY and
\* the next EXIT_FULL: position_usd never exceeds capital_usd * (probe_pct +
\* add_pct), it grows only with the change of status of an entry, and the
\* ADD_BUY keeps the entry_index and entry_price set by the PROBE_BUY.
C36_SingleAdd ==
    [][\A m \in TokenMints :
         /\ state'[m].position_usd * 100 <= cfg.capital_usd * (cfg.probe_pct + cfg.add_pct)
         /\ state'[m].position_usd > state[m].position_usd
            => state'[m].status /= state[m].status
         /\ (state[m].status = STATE_PROBE /\ state'[m].status = STATE_TRADE)
            => /\ state'[m].entry_index = state[m].entry_index
               /\ state'[m].entry_price = state[m].entry_price]_vars

\* C37: when a PROBE_BUY/BREAKOUT_CONFIRM proposal is demoted to HOLD in its
\* tick (here: RANKED_OUT by the ranker), then at the moment the demoted item
\* is passed over its instrument is in SCOUT with no position and with its
\* pending-breakout fields cleared.
C37_DemotedConfirmIsDropped ==
    (/\ pc = "resolve"
     /\ item.k <= Len(item.proposals)
     /\ item.proposals[item.k].proposal = [action |-> ACTION_HOLD,
                                           reason_codes |-> <<"BREAKOUT_CONFIRM", "RANKED_OUT">>])
    => LET it == item.proposals[item.k]
           s == IF it.known THEN state[it.instrument] ELSE it.own
       IN /\ s.status = STATE_SCOUT
          /\ s.position_usd = 0
          /\ PendingCleared(s)

\* C38: in run_engine the candle_index handed to the policy for an instrument
\* never decreases from one tick to the next, grows by at most 1 per tick, and
\* indexes the last candle of the window handed to build_snapshot, whatever
\* candle lists the feed returns.
C38_CandleIndexSteps ==
    \A m \in TokenMints :
        item.index[m] /= None
        => /\ item.index[m] = item.window[m] - 1
           /\ item.prev[m] /= None
              => /\ item.index[m] >= item.prev[m]
                 /\ item.index[m] <= item.prev[m] + 1

\* C39: the breaker opens with the failure that brings the count of failures
\* recorded since the last success to failure_threshold; a request() called
\* while the breaker is open raises CircuitBreakerOpen without an attempt; no
\* attempt is sent while the breaker is open, also not by a request that was
\* already retrying when it opened.
C39_NoAttemptWhileOpen ==
    [][/\ (~item.open /\ item'.open) => item.failures + 1 = FailureThreshold
       /\ (item.open /\ cursor' = cursor + 1)
          => item'.result = "CircuitBreakerOpen" /\ item'.sent = 0 /\ pc' = "finished"
       /\ item'.sent = item.sent + 1 => ~item.open]_vars

RECURSIVE SumOf(_)
SumOf(seq) == IF seq = <<>> THEN 0 ELSE seq[1] + SumOf(Tail(seq))

\* C40: in simulate_pair and run_backtest, after every processed action cash
\* plus position_cost_usd is the starting capital plus the pnl_usd of the
\* trades recorded so far, cash and position_qty are never negative, and
\* after the forced exit at the end position_qty is 0 and cash is the final
\* equity that total_return_pct is computed from.
C40_PortfolioAccounts ==
    /\ item.cash + item.position_cost_usd = cfg.capital_usd + SumOf(item.trades)
    /\ item.cash >= 0
    /\ item.position_qty >= 0
    /\ pc = "bt_done"
       => /\ item.position_qty = 0
          /\ item.total_return_pct = (item.cash * 10000) \div cfg.capital_usd - 10000

\* the series ended on an open position after a probe, an add and a
\* scale-out: the forced exit sold the rest at a loss
C40_Witness ==
    /\ pc = "bt_done"
    /\ Len(item.trades) >= 4
    /\ item.trades[Len(item.trades)] < 0
    /\ state.scale_out_stage >= 1
    /\ state.status = STATE_TRADE
    /\ item.position_qty = 0

====
